---- MODULE Spec2Model ----
(***************************************************************************)
(* Model of the i2r.py pipeline orchestrator (FlTixier/I2R) and of the     *)
(* generator of testing pipeline files, gen_testing_pipeline_file.py.      *)
(*                                                                         *)
(* Python strings are sequences of one-character strings, so that          *)
(* concatenation and rstrip('/') are computed rather than assumed.  The    *)
(* Python booleans True/False and integers are kept apart from the strings *)
(* 'True'/'False'/'12' by a leading tag element that no character equals.  *)
(* A dict is a function from its keys (TLA+ strings) to such values.       *)
(***************************************************************************)
EXTENDS Naturals, Integers, Sequences, FiniteSets, TLC

VARIABLES
    file,               \* the lines of the config file given with -c
    configs,            \* list filled by read_config_file: the blocks, in file order
    inputPath,          \* value of -i/--input, '' when not given
    global_params,      \* dict shared by all stages
    params,             \* dict of the stage being run (kept between iterations)
    previous_outFolder, \* last non-empty outputFolder
    pc,                 \* "read" | "collect" | "loop" | "running" | "exited" | "end"
    idx,                \* position of the for-loop over configs (1-based)
    calls,              \* collaborators launched so far: [stage, prog, flags]
    running,            \* stages whose collaborator was launched and has not returned
    lastResult,         \* how the last collaborator that returned ended
    exitCode,           \* process exit status once pc is "exited" or "end"
    printed,            \* what the orchestrator has printed: [stage, msg, arg]
    \* gen_testing_pipeline_file.py, create_testing_pipeline_file
    infile,             \* the lines of pipeline_file
    outfile,            \* the lines written to pipeline_file_testing so far
    strategy,           \* 'manual' | 'suffix' | 'auto'
    predictModule,      \* option -p
    testing_config,     \* the local config: module whose block is being copied, ''
    newInputFolder,     \* input folder of the next module, '' before the first one
    resultFolder,       \* folder given for the RADIOMICS results, '' before
    lineno,             \* position of the for-loop over infile (1-based)
    prompts,            \* the calls of input() so far: [line, module, ask]
    gen                 \* "idle" | "open" | "lines" | "exited" | "done"

tvars == <<infile, outfile, strategy, predictModule, testing_config, newInputFolder,
           resultFolder, lineno, prompts, gen>>

ovars == <<file, configs, inputPath, global_params, params, previous_outFolder,
           pc, idx, calls, running, lastResult, exitCode, printed>>

vars == <<file, configs, inputPath, global_params, params, previous_outFolder,
          pc, idx, calls, running, lastResult, exitCode, printed,
          infile, outfile, strategy, predictModule, testing_config, newInputFolder,
          resultFolder, lineno, prompts, gen>>

-----------------------------------------------------------------------------
(* Bounds of the explored inputs *)

MaxStages == 3
MaxContext == 1

-----------------------------------------------------------------------------
(* Python values *)

PyTrue == <<"bool:True">>
PyFalse == <<"bool:False">>
PyInt(digits) == <<"int:">> \o digits
PyFloat(text) == <<"float:">> \o text
PyList(text) == <<"list:">> \o text

EmptyStr == << >>
DOT == <<".">>
PREVIOUS_BLOCK_OUTPUT_FOLDER ==
    <<"P","R","E","V","I","O","U","S","_","B","L","O","C","K","_",
      "O","U","T","P","U","T","_","F","O","L","D","E","R">>

Ready == <<"R","e","a","d","y">>
Ready_to_reorganize == Ready \o <<"_","t","o","_","r","e","o","r","g","a","n","i","z","e">>
Invalid == <<"I","n","v","a","l","i","d">>
Unknow == <<"U","n","k","n","o","w">>

Digits == {"0","1","2","3","4","5","6","7","8","9"}
Whitespace == {" ", "\t"}

UpperCase == <<"A","B","C","D","E","F","G","H","I","J","K","L","M",
               "N","O","P","Q","R","S","T","U","V","W","X","Y","Z">>
LowerCase == <<"a","b","c","d","e","f","g","h","i","j","k","l","m",
               "n","o","p","q","r","s","t","u","v","w","x","y","z">>

\* s.lower()
lower(s) ==
    [k \in 1..Len(s) |->
        IF \E n \in 1..26 : UpperCase[n] = s[k]
        THEN LowerCase[CHOOSE n \in 1..26 : UpperCase[n] = s[k]] ELSE s[k]]

\* s.split(c)
RECURSIVE split(_, _)
split(s, c) ==
    IF \A k \in 1..Len(s) : s[k] # c THEN <<s>>
    ELSE LET n == CHOOSE k \in 1..Len(s) : s[k] = c /\ \A j \in 1..(k - 1) : s[j] # c
         IN <<SubSeq(s, 1, n - 1)>> \o split(SubSeq(s, n + 1, Len(s)), c)

\* sub in s
Contains(sub, s) ==
    \E k \in 0..(Len(s) - Len(sub)) : \A j \in 1..Len(sub) : s[k + j] = sub[j]

\* s.strip(c) for one character c
RECURSIVE StripChar(_, _)
StripChar(s, c) ==
    IF Len(s) > 0 /\ s[1] = c THEN StripChar(Tail(s), c)
    ELSE IF Len(s) > 0 /\ s[Len(s)] = c THEN StripChar(SubSeq(s, 1, Len(s) - 1), c)
    ELSE s

\* s.strip()
RECURSIVE strip(_)
strip(s) ==
    IF Len(s) > 0 /\ s[1] \in Whitespace THEN strip(Tail(s))
    ELSE IF Len(s) > 0 /\ s[Len(s)] \in Whitespace THEN strip(SubSeq(s, 1, Len(s) - 1))
    ELSE s

\* the TLA+ string spelled by a sequence of characters
RECURSIVE Join(_)
Join(s) == IF s = << >> THEN "" ELSE s[1] \o Join(Tail(s))

RECURSIVE StripZeros(_)
StripZeros(s) == IF Len(s) > 1 /\ s[1] = "0" THEN StripZeros(Tail(s)) ELSE s

RECURSIVE StripTrailingZeros(_)
StripTrailingZeros(s) ==
    IF Len(s) > 1 /\ s[Len(s)] = "0" THEN StripTrailingZeros(SubSeq(s, 1, Len(s) - 1)) ELSE s

\* a numeric literal without its optional sign
Unsigned(i) == IF Len(i) > 0 /\ i[1] \in {"+", "-"} THEN Tail(i) ELSE i
Negative(i) == Len(i) > 0 /\ i[1] = "-"

\* decimal digits, single underscores allowed between them
IsDigitRun(s) ==
    /\ Len(s) > 0 /\ s[1] \in Digits /\ s[Len(s)] \in Digits
    /\ \A k \in 1..Len(s) : s[k] \in Digits \cup {"_"}
    /\ \A k \in 1..(Len(s) - 1) : ~(s[k] = "_" /\ s[k + 1] = "_")
DigitsOf(s) == SelectSeq(s, LAMBDA c : c \in Digits)

\* int(i) succeeds (the values read from a file hold no whitespace)
IsIntLiteral(i) == IsDigitRun(Unsigned(i))

\* int(i)
IntValue(i) ==
    LET d == StripZeros(DigitsOf(Unsigned(i)))
    IN PyInt(IF Negative(i) /\ d # <<"0">> THEN <<"-">> \o d ELSE d)

FloatWords == {<<"n","a","n">>, <<"i","n","f">>, <<"i","n","f","i","n","i","t","y">>}

\* float(i) succeeds: a decimal point with digits on at least one side, or
\* nan/inf/infinity in any case (the explored values hold no exponent)
IsFloatLiteral(i) ==
    LET parts == split(Unsigned(i), ".") IN
    \/ Len(Unsigned(i)) \in {3, 8} /\ lower(Unsigned(i)) \in FloatWords
    \/ /\ Len(parts) = 2
       /\ parts[1] = << >> \/ IsDigitRun(parts[1])
       /\ parts[2] = << >> \/ IsDigitRun(parts[2])
       /\ parts[1] # << >> \/ parts[2] # << >>

\* float(i), written as repr writes it
FloatValue(i) ==
    LET body == Unsigned(i)
        parts == split(body, ".")
        whole == IF parts[1] = << >> THEN <<"0">> ELSE StripZeros(DigitsOf(parts[1]))
        frac == IF parts[2] = << >> THEN <<"0">> ELSE StripTrailingZeros(DigitsOf(parts[2]))
        sign == IF Negative(i) THEN <<"-">> ELSE << >>
    IN IF Len(parts) = 2 THEN PyFloat(sign \o whole \o <<".">> \o frac)
       ELSE IF lower(body) = <<"n","a","n">> THEN PyFloat(<<"n","a","n">>)
       ELSE PyFloat(sign \o <<"i","n","f">>)

\* a value that is not a str
Tags == {"bool:True", "bool:False", "int:", "float:", "list:"}
IsTagged(v) == Len(v) > 0 /\ v[1] \in Tags

\* repr(v)
Repr(v) ==
    IF v = PyTrue THEN <<"T","r","u","e">>
    ELSE IF v = PyFalse THEN <<"F","a","l","s","e">>
    ELSE IF IsTagged(v) THEN Tail(v)
    ELSE <<"'">> \o v \o <<"'">>

\* eval(i), for the values that reach it: a quoted literal gives its text;
\* i2r.py binds no name pi, so every other explored expression raises and
\* parse returns i
IsQuoted(i) ==
    /\ Len(i) >= 2 /\ i[1] = "'" /\ i[Len(i)] = "'"
    /\ \A k \in 2..(Len(i) - 1) : i[k] \notin {"'", "\\"}
EvalOrSelf(i) == IF IsQuoted(i) THEN SubSeq(i, 2, Len(i) - 1) ELSE i

\* what parse gives when i[0] is read on the empty string
IndexError == <<"raise:IndexError">>

\* the pieces parse reads a list from: split on ',', '[' stripped from the
\* first piece and then ']' from the last
ListItems(i) ==
    LET parts == split(i, ",")
        n == Len(parts)
        first == StripChar(parts[1], "[")
    IN IF n = 1 THEN <<StripChar(first, "]")>>
       ELSE <<first>> \o SubSeq(parts, 2, n - 1) \o <<StripChar(parts[n], "]")>>

\* the body of parse: 'True'/'true' and 'False'/'false' become booleans, then int(i),
\* then float(i), then eval for a value holding 'pi', then the string itself
\* unless it starts with '['; i[0] raises IndexError on the empty string, which
\* only the try block of the list reading catches
RECURSIVE parse(_)
RECURSIVE ParseValue(_)
RECURSIVE ParseItems(_)
\* for j in range(len(split)): split[j]=parse(split[j])
ParseItems(items) ==
    IF items = << >> THEN << >> ELSE <<parse(Head(items))>> \o ParseItems(Tail(items))

\* repr of the items of a list, joined as repr(list) joins them
RECURSIVE ReprItems(_)
ReprItems(vals) ==
    IF vals = << >> THEN << >>
    ELSE IF Len(vals) = 1 THEN Repr(vals[1])
    ELSE Repr(vals[1]) \o <<",", " ">> \o ReprItems(Tail(vals))

ParseValue(i) ==
    IF i \in {<<"T","r","u","e">>, <<"t","r","u","e">>} THEN PyTrue
    ELSE IF i \in {<<"F","a","l","s","e">>, <<"f","a","l","s","e">>} THEN PyFalse
    ELSE IF IsIntLiteral(i) THEN IntValue(i)
    ELSE IF IsFloatLiteral(i) THEN FloatValue(i)
    ELSE IF Contains(<<"p","i">>, i) THEN EvalOrSelf(i)
    ELSE IF i = EmptyStr THEN IndexError
    ELSE IF i[1] # "[" THEN i
    ELSE LET vals == ParseItems(ListItems(i))
         IN IF \E k \in 1..Len(vals) : vals[k] = IndexError THEN i
            ELSE PyList(<<"[">> \o ReprItems(vals) \o <<"]">>)

\* parse(i), with i evaluated once before the tests of ParseValue read it
parse(i) == CHOOSE r \in {ParseValue(v) : v \in {i}} : TRUE

\* str(v)
str(v) ==
    IF v = PyTrue THEN <<"T","r","u","e">>
    ELSE IF v = PyFalse THEN <<"F","a","l","s","e">>
    ELSE IF IsTagged(v) THEN Tail(v)
    ELSE v

Zeros == {PyInt(<<"0">>), PyFloat(<<"0",".","0">>), PyFloat(<<"-","0",".","0">>)}
Ones == {PyInt(<<"1">>), PyFloat(<<"1",".","0">>)}

\* truth value of v in "if v:"
Truthy(v) == v \notin {PyFalse, EmptyStr} \cup Zeros

\* v == False
EqFalse(v) == v \in {PyFalse} \cup Zeros

\* v == True
EqTrue(v) == v \in {PyTrue} \cup Ones

\* v is a number (bool, int or float), so that v > 1 does not raise TypeError
IsNumber(v) == Len(v) > 0 /\ v[1] \in {"bool:True", "bool:False", "int:", "float:"}

\* v > 1 for a number v
GreaterThanOne(v) ==
    LET t == Tail(v)
        whole == split(t, ".")[1]
    IN CASE v[1] \in {"bool:True", "bool:False"} -> FALSE
         [] v[1] = "int:" -> t[1] # "-" /\ (Len(t) > 1 \/ t[1] \notin {"0", "1"})
         [] v[1] = "float:" ->
               \/ t = <<"i","n","f">>
               \/ /\ t[1] \in Digits
                  /\ \/ Len(whole) > 1 \/ whole[1] \notin {"0", "1"}
                     \/ whole = <<"1">> /\ split(t, ".")[2] # <<"0">>

\* s.rstrip('/')
RECURSIVE rstrip(_)
rstrip(s) ==
    IF Len(s) > 0 /\ s[Len(s)] = "/" THEN rstrip(SubSeq(s, 1, Len(s) - 1)) ELSE s

-----------------------------------------------------------------------------
(* dicts *)

EmptyDict == [k \in {} |-> EmptyStr]
Has(p, k) == k \in DOMAIN p
Put(p, k, v) == [x \in (DOMAIN p) \cup {k} |-> IF x = k THEN v ELSE p[x]]
\* SetDefault that writes the default over a value that is already there
SetDefaultOverwrites(p, k, v) == Put(p, k, v)

SetDefault(p, k, v) == IF Has(p, k) THEN p ELSE Put(p, k, v)
\* q written over p, key by key
Overlay(p, q) == [x \in (DOMAIN p) \cup (DOMAIN q) |-> IF x \in DOMAIN q THEN q[x] ELSE p[x]]
ParseAll(raw) == [x \in DOMAIN raw |-> parse(raw[x])]
\* the entries of raw that "for i in cfg.index" reaches, parsed
ParseSome(raw, labels) == [x \in labels |-> parse(raw[x])]

-----------------------------------------------------------------------------
(* The config file and read_config_file *)

\* the spelling of the names the files are written with
Spell ==
    ("GLOBAL_PARAMETERS" :> <<"G","L","O","B","A","L","_","P","A","R","A","M","E","T","E","R","S">>)
    @@ ("CHECK_FOLDER" :> <<"C","H","E","C","K","_","F","O","L","D","E","R">>)
    @@ ("REORGANIZE" :> <<"R","E","O","R","G","A","N","I","Z","E">>)
    @@ ("DCM2NII" :> <<"D","C","M","2","N","I","I">>)
    @@ ("SPATIAL_RESAMPLING" :> <<"S","P","A","T","I","A","L","_","R","E","S","A","M","P","L","I","N","G">>)
    @@ ("INTENSITY_RESAMPLING" :> <<"I","N","T","E","N","S","I","T","Y","_","R","E","S","A","M","P","L","I","N","G">>)
    @@ ("MERGE_MASKS" :> <<"M","E","R","G","E","_","M","A","S","K","S">>)
    @@ ("MASK_THRESHOLDING" :> <<"M","A","S","K","_","T","H","R","E","S","H","O","L","D","I","N","G">>)
    @@ ("I-WINDOWING" :> <<"I","-","W","I","N","D","O","W","I","N","G">>)
    @@ ("I-HARMONIZE" :> <<"I","-","H","A","R","M","O","N","I","Z","E">>)
    @@ ("N4-BIAS-FIELD-CORRECTION" :> <<"N","4","-","B","I","A","S","-","F","I","E","L","D","-","C","O","R","R","E","C","T","I","O","N">>)
    @@ ("RADIOMICS" :> <<"R","A","D","I","O","M","I","C","S">>)
    @@ ("DELETE" :> <<"D","E","L","E","T","E">>)
    @@ ("SEGMENTATION" :> <<"S","E","G","M","E","N","T","A","T","I","O","N">>)
    @@ ("F-NORMALIZE" :> <<"F","-","N","O","R","M","A","L","I","Z","E">>)
    @@ ("F-HARMONIZE" :> <<"F","-","H","A","R","M","O","N","I","Z","E">>)
    @@ ("PREDICT" :> <<"P","R","E","D","I","C","T">>)
    @@ ("COPY" :> <<"C","O","P","Y">>)
    @@ ("inputFolder" :> <<"i","n","p","u","t","F","o","l","d","e","r">>)
    @@ ("folder" :> <<"f","o","l","d","e","r">>)
    @@ ("outputFolder" :> <<"o","u","t","p","u","t","F","o","l","d","e","r">>)
    @@ ("outputFolderSuffix" :> <<"o","u","t","p","u","t","F","o","l","d","e","r","S","u","f","f","i","x">>)
    @@ ("targetFolder" :> <<"t","a","r","g","e","t","F","o","l","d","e","r">>)
    @@ ("inplace" :> <<"i","n","p","l","a","c","e">>)
    @@ ("mv" :> <<"m","v">>)
    @@ ("reg" :> <<"r","e","g">>)
    @@ ("add" :> <<"a","d","d">>)
    @@ ("sub" :> <<"s","u","b">>)
    @@ ("mask_name" :> <<"m","a","s","k","_","n","a","m","e">>)
    @@ ("reference_image" :> <<"r","e","f","e","r","e","n","c","e","_","i","m","a","g","e">>)
    @@ ("configs" :> <<"c","o","n","f","i","g","s">>)
    @@ ("pyradiomics_config" :> <<"p","y","r","a","d","i","o","m","i","c","s","_","c","o","n","f","i","g">>)
    @@ ("save_at_the_end" :> <<"s","a","v","e","_","a","t","_","t","h","e","_","e","n","d">>)
    @@ ("multiprocessing" :> <<"m","u","l","t","i","p","r","o","c","e","s","s","i","n","g">>)
    @@ ("timer" :> <<"t","i","m","e","r">>)


\* the module names in the order of the elif chain that looks for them
KindOrder ==
    <<"GLOBAL_PARAMETERS", "CHECK_FOLDER", "REORGANIZE", "DCM2NII", "SPATIAL_RESAMPLING",
      "INTENSITY_RESAMPLING", "MERGE_MASKS", "MASK_THRESHOLDING", "I-WINDOWING",
      "I-HARMONIZE", "N4-BIAS-FIELD-CORRECTION", "RADIOMICS", "DELETE", "SEGMENTATION",
      "F-NORMALIZE", "F-HARMONIZE", "PREDICT", "COPY">>

\* the first module whose name is found in line.split('#')[0], "" when none is
MatchKind(line) ==
    LET head == split(line, "#")[1]
        hits == {n \in 1..Len(KindOrder) : Contains(Spell[KindOrder[n]], head)}
    IN IF hits = {} THEN ""
       ELSE KindOrder[CHOOSE n \in hits : \A m \in hits : n <= m]

\* config = pd.Series(dtype=object): function is "" while 'function' is not
\* in config.index; index holds the labels added after it, in order, and p the
\* value last given to each label
NoConfig == [function |-> "", index |-> << >>, p |-> EmptyDict]

\* line.replace(' ','').replace('\t','')
RemoveBlanks(line) == SelectSeq(line, LAMBDA c : c \notin Whitespace)

\* read_config_file over the remaining lines: the blocks appended to configs,
\* and the error that stopped the reading ("malformed": sys.exit(1) of the
\* except clause, "unknown": sys.exit() of the last else) with its line
RECURSIVE read_config_file(_, _, _, _)
read_config_file(lines, config, begin_param_list, cfgs) ==
    IF lines = << >> THEN [configs |-> cfgs, error |-> "none", line |-> EmptyStr]
    ELSE
    LET line == strip(Head(lines))
        rest == Tail(lines)
        squeezed == RemoveBlanks(line)
        value == split(split(squeezed, "#")[1], ":")
        key == Join(split(squeezed, ":")[1])
    IN
    IF line = EmptyStr THEN read_config_file(rest, config, begin_param_list, cfgs)
    ELSE IF line[1] = "#" THEN read_config_file(rest, config, begin_param_list, cfgs)
    ELSE IF config.function # "" THEN
        IF line[1] = "{" THEN read_config_file(rest, config, TRUE, cfgs)
        ELSE IF begin_param_list THEN
            IF line[1] = "}"
            THEN read_config_file(rest, NoConfig, FALSE, Append(cfgs, config))
            ELSE IF Len(value) < 2
            THEN [configs |-> cfgs, error |-> "malformed", line |-> squeezed]
            ELSE read_config_file(rest,
                    [config EXCEPT !.index = Append(@, key), !.p = Put(@, key, value[2])],
                    begin_param_list, cfgs)
        ELSE read_config_file(rest, config, begin_param_list, cfgs)
    ELSE IF MatchKind(line) # ""
    THEN read_config_file(rest, [NoConfig EXCEPT !.function = MatchKind(line)],
                          begin_param_list, cfgs)
    ELSE [configs |-> cfgs, error |-> "unknown", line |-> split(line, "#")[1]]

\* the labels a block holds more than once; cfg[i] is then a Series, not a str
Labels(c) == <<"function">> \o c.index
Dup(c) ==
    {Labels(c)[n] : n \in {m \in 1..Len(Labels(c)) :
                              \E j \in 1..Len(Labels(c)) : j # m /\ Labels(c)[j] = Labels(c)[m]}}

\* parse(cfg[i]) raises for the n-th label added to the block: ValueError on
\* the truth value of a Series, IndexError on the empty string
RaisesAt(c, n) ==
    IF c.index[n] \in Dup(c) THEN "ValueError"
    ELSE IF parse(c.p[c.index[n]]) = IndexError THEN "IndexError"
    ELSE "none"
FirstRaise(c) ==
    IF \A n \in 1..Len(c.index) : RaisesAt(c, n) = "none" THEN 0
    ELSE CHOOSE n \in 1..Len(c.index) :
            /\ RaisesAt(c, n) # "none"
            /\ \A m \in 1..(n - 1) : RaisesAt(c, m) = "none"

\* the exception that ends "for i in cfg.index: ...[i]=parse(cfg[i])", or "none"
ParseError(c) == IF FirstRaise(c) = 0 THEN "none" ELSE RaisesAt(c, FirstRaise(c))

\* the labels that loop has written when it ends
ParsedLabels(c) ==
    IF FirstRaise(c) = 0 THEN DOMAIN c.p
    ELSE {c.index[n] : n \in 1..(FirstRaise(c) - 1)}

-----------------------------------------------------------------------------
(* Stage kinds and their parameter resolution (the branches of main) *)

StageKinds ==
    {"CHECK_FOLDER", "REORGANIZE", "DCM2NII", "SPATIAL_RESAMPLING",
     "INTENSITY_RESAMPLING", "MERGE_MASKS", "MASK_THRESHOLDING", "I-WINDOWING",
     "I-HARMONIZE", "N4-BIAS-FIELD-CORRECTION", "RADIOMICS", "DELETE",
     "SEGMENTATION", "F-NORMALIZE", "F-HARMONIZE", "PREDICT", "COPY"}

\* kinds whose branch derives outputFolder from outputFolderSuffix
SuffixKinds ==
    {"REORGANIZE", "DCM2NII", "SPATIAL_RESAMPLING", "INTENSITY_RESAMPLING",
     "MERGE_MASKS", "MASK_THRESHOLDING", "I-WINDOWING", "I-HARMONIZE",
     "N4-BIAS-FIELD-CORRECTION", "RADIOMICS"}

\* the key that names the folder a kind works on
InputKey(kind) == IF kind = "DELETE" THEN "folder" ELSE "inputFolder"

\* StageParams without the fresh copy: the dict of the stage before is kept
StageParamsKeepsOld(gp, c) ==
    Overlay(Overlay(params, gp), ParseSome(c.p, ParsedLabels(c)))

\* params = global_params.copy(); params[i] = parse(cfg[i]) for the block's
\* labels, up to the one whose parse raises
StageParams(gp, c) == Overlay(gp, ParseSome(c.p, ParsedLabels(c)))

\* if params['inputFolder'] == '.': the -i path when one was given; otherwise
\* an error is printed and the value stays '.'
ResolveDot(p, inPath) ==
    IF p["inputFolder"] = DOT /\ inPath # EmptyStr
    THEN Put(p, "inputFolder", inPath) ELSE p

\* if params[key] == 'PREVIOUS_BLOCK_OUTPUT_FOLDER': params[key] = previous_outFolder
ResolvePrevious(p, key, prev) ==
    IF p[key] = PREVIOUS_BLOCK_OUTPUT_FOLDER THEN Put(p, key, prev) ELSE p

\* if not 'outputFolder' in params: from the suffix when there is one, else dflt
ResolveOutput(p, dflt) ==
    IF Has(p, "outputFolder") THEN p
    ELSE IF Has(p, "outputFolderSuffix")
         THEN Put(p, "outputFolder",
                  rstrip(p["inputFolder"]) \o <<"_">> \o str(p["outputFolderSuffix"]))
         ELSE Put(p, "outputFolder", dflt)

\* kinds whose branch substitutes PREVIOUS_BLOCK_OUTPUT_FOLDER before it derives
\* the output folder, and kinds whose branch derives the output folder first
SubstituteFirstKinds == {"DCM2NII", "SPATIAL_RESAMPLING", "INTENSITY_RESAMPLING", "RADIOMICS"}
DeriveFirstKinds ==
    {"REORGANIZE", "MERGE_MASKS", "MASK_THRESHOLDING", "I-WINDOWING", "I-HARMONIZE",
     "N4-BIAS-FIELD-CORRECTION"}

\* value given to outputFolder when the block has neither it nor a suffix
OutputDefault(kind) == IF kind = "RADIOMICS" THEN <<"~", "/">> ELSE EmptyStr

\* RADIOMICS: save_at_the_end is False and multiprocessing 1 unless given
RadiomicsDefaults(p) ==
    SetDefault(SetDefault(p, "save_at_the_end", PyFalse), "multiprocessing", PyInt(<<"1">>))

\* params['save_at_the_end']==True and params['multiprocessing'] > 1
SaveConflict(p) ==
    /\ EqTrue(p["save_at_the_end"])
    /\ IsNumber(p["multiprocessing"]) /\ GreaterThanOne(p["multiprocessing"])

\* that test compares a str or a list with 1: an uncaught TypeError
CompareError(kind, p) ==
    /\ kind = "RADIOMICS"
    /\ EqTrue(RadiomicsDefaults(p)["save_at_the_end"])
    /\ ~IsNumber(RadiomicsDefaults(p)["multiprocessing"])

\* the remaining defaults of a branch that decide what is launched
KindDefaults(kind, p) ==
    CASE kind = "REORGANIZE" ->
            SetDefault(SetDefault(p, "inplace", PyFalse), "mv", <<"F","a","l","s","e">>)
      [] kind = "MERGE_MASKS" ->
            IF Has(p, "add") THEN SetDefault(p, "sub", EmptyStr) ELSE p
      [] kind = "RADIOMICS" ->
            LET q == SetDefault(SetDefault(RadiomicsDefaults(p), "configs", EmptyStr),
                                "pyradiomics_config", EmptyStr)
            IN IF SaveConflict(q) THEN Put(q, "save_at_the_end", PyFalse) ELSE q
      [] kind \in {"F-NORMALIZE", "F-HARMONIZE", "PREDICT"} ->
            SetDefault(p, "outputFolder", EmptyStr)
      [] kind = "COPY" -> SetDefault(p, "targetFolder", EmptyStr)
      [] OTHER -> p

\* if not 'timer' in params.keys(): params['timer']=False, first lines of
\* every branch
TimerDefault(p) == SetDefault(p, "timer", PyFalse)

\* the params of a stage of this kind once its branch has filled them in;
\* p holds the global values and the block's own, and passes Fatal
Resolve(kind, p, inPath, prev) ==
    LET q == TimerDefault(p) IN
    CASE kind = "CHECK_FOLDER" -> ResolveDot(q, inPath)
      [] kind = "DELETE" -> ResolvePrevious(q, "folder", prev)
      [] kind \in SubstituteFirstKinds ->
            KindDefaults(kind,
                ResolveOutput(ResolvePrevious(ResolveDot(q, inPath), "inputFolder", prev),
                              OutputDefault(kind)))
      [] kind \in DeriveFirstKinds ->
            KindDefaults(kind,
                ResolvePrevious(ResolveOutput(ResolveDot(q, inPath), OutputDefault(kind)),
                                "inputFolder", prev))
      [] OTHER ->
            KindDefaults(kind, ResolvePrevious(ResolveDot(q, inPath), "inputFolder", prev))

\* MissingRequired without the test of the RADIOMICS and I-HARMONIZE branches
MissingRequiredFoldersOnly(kind, p) ==
    \/ ~Has(p, InputKey(kind))
    \/ kind \in {"DCM2NII", "SPATIAL_RESAMPLING"}
         /\ ~Has(p, "outputFolder") /\ ~Has(p, "outputFolderSuffix")
    \/ kind = "MERGE_MASKS" /\ (Has(p, "reg") <=> Has(p, "add"))

\* the branch ends the run with sys.exit: a required parameter is missing, the
\* MERGE_MASKS options contradict each other
MissingRequired(kind, p) ==
    \/ ~Has(p, InputKey(kind))
    \/ kind \in {"DCM2NII", "SPATIAL_RESAMPLING"}
         /\ ~Has(p, "outputFolder") /\ ~Has(p, "outputFolderSuffix")
    \/ kind = "MERGE_MASKS" /\ (Has(p, "reg") <=> Has(p, "add"))
    \/ kind = "I-HARMONIZE" /\ ~Has(p, "reference_image")
    \/ kind = "RADIOMICS" /\ ~Has(p, "configs") /\ ~Has(p, "pyradiomics_config")

\* global_params['Structure'] as REORGANIZE reads it ('Unknow' when absent)
StructureOf(gp) == IF Has(gp, "Structure") THEN gp["Structure"] ELSE Unknow

\* the branch ends the run before launching anything
Fatal(kind, p, gp) ==
    \/ MissingRequired(kind, p)
    \/ kind = "REORGANIZE" /\ StructureOf(gp) = Invalid

\* the flag list reads a key no default supplies: an uncaught KeyError
FlagKeyError(kind, p) == kind = "MERGE_MASKS" /\ ~Has(p, "mask_name")

\* status the process ends with when the branch stops the run
FatalExitCode(kind, p) ==
    IF \/ Has(p, InputKey(kind)) /\ kind = "I-HARMONIZE" /\ ~Has(p, "reference_image")
       \/ ~MissingRequired(kind, p) /\ FlagKeyError(kind, p)
       \/ ~MissingRequired(kind, p) /\ CompareError(kind, p)
    THEN 1 ELSE 0

\* the iteration of block c stops the run: parse raises on one of its values,
\* the branch calls sys.exit, or it raises before it launches anything
Stops(c, p, gp) ==
    \/ ParseError(c) # "none"
    \/ Fatal(c.function, p, gp)
    \/ CompareError(c.function, p)
    \/ FlagKeyError(c.function, p)

\* the uncaught exception that stops the iteration, "none" when sys.exit does
Uncaught(c, p, gp) ==
    IF ParseError(c) # "none" THEN ParseError(c)
    ELSE IF Fatal(c.function, p, gp) THEN "none"
    ELSE IF CompareError(c.function, p) THEN "TypeError"
    ELSE IF FlagKeyError(c.function, p) THEN "KeyError"
    ELSE "none"

\* what the branch prints before its sys.exit
FatalMessage(kind, p) ==
    IF ~Has(p, InputKey(kind))
    THEN IF kind = "DELETE" THEN "ERROR! No folder to delete"
         ELSE "ERROR! No input folder specified"
    ELSE CASE kind \in {"DCM2NII", "SPATIAL_RESAMPLING"} -> "ERROR! No out folder specified"
           [] kind = "MERGE_MASKS" ->
                "ERROR! To determine the masks to add and substract the options add and sub OR reg need to be used"
           [] kind = "I-HARMONIZE" ->
                "ERROR! I-HARMONIZE requires a reference image to perform harmonization"
           [] kind = "RADIOMICS" ->
                "ERROR! Neither \"configs\" nor \"pyradiomics_config\" is specified."
           [] OTHER -> "ERROR! Current folder cannot be reorganize"

Message(stage, msg, arg) == [stage |-> stage, msg |-> msg, arg |-> arg]

\* what an iteration that stops the run prints
StopMessage(stage, c, p, gp) ==
    IF Uncaught(c, p, gp) # "none" THEN Message(stage, "Traceback", Uncaught(c, p, gp))
    ELSE Message(stage, FatalMessage(c.function, p), "")

\* the script the except clause of a branch names
ErrorScript(kind, gp) ==
    CASE kind = "CHECK_FOLDER" -> "StructFolderCheck.py"
      [] kind = "REORGANIZE" ->
            IF StructureOf(gp) = Ready THEN "no_reorganize.py" ELSE "reorganize.py"
      [] kind = "DCM2NII" -> "dcm2nii_multiprocessing.py"
      [] kind \in {"SPATIAL_RESAMPLING", "INTENSITY_RESAMPLING"} ->
            "NiftiSpatialResampling_multiprocessing.py"
      [] kind = "MERGE_MASKS" -> "NiftiResampling_multiprocessing.py"
      [] kind = "MASK_THRESHOLDING" -> "NiftiMaskThresholding_multiprocessing.py"
      [] kind = "I-WINDOWING" -> "NiftiWindowing_multiprocessing.py"
      [] kind = "I-HARMONIZE" -> "NiftiImageHarmonization_multiprocessing.py"
      [] kind = "N4-BIAS-FIELD-CORRECTION" -> "NiftiN4BiasFieldCorrection_multiprocessing.py"
      [] kind \in {"RADIOMICS", "SEGMENTATION"} -> "radiomics_multiprocessing.py"
      [] kind = "DELETE" -> "delete_folder.py"
      [] kind = "F-NORMALIZE" -> "feature_normalization.py"
      [] kind = "F-HARMONIZE" -> "feature_harmonization.py"
      [] kind \in {"PREDICT", "COPY"} -> "predict.py"

\* the warning of the RADIOMICS branch
SaveWarning ==
    "WARNING: With multiprocessing option, radiomics results cannot be saved at the end. Save at the end was set to False"

-----------------------------------------------------------------------------
(* What a branch launches *)

\* REORGANIZE with Structure 'Ready' and inplace not False launches nothing
LaunchesNothing(kind, p, gp) ==
    kind = "REORGANIZE" /\ StructureOf(gp) = Ready /\ ~EqFalse(p["inplace"])

\* Program with the Ready case of REORGANIZE lost
ProgramIgnoresReady(kind, gp) ==
    CASE kind = "CHECK_FOLDER" -> "src/StructFolderCheck.py"
      [] kind = "REORGANIZE" -> "src/reorganize_multiprocessing.py"
      [] kind = "RADIOMICS" -> "src/radiomics_multiprocessing.py"
      [] kind = "DELETE" -> "src/delete_folder.py"
      [] kind = "COPY" -> "src/copy_folder_contents.py"
      [] OTHER -> "src/dcm2nii_multiprocessing.py"

\* prog: the script of the collaborator
Program(kind, gp) ==
    CASE kind = "CHECK_FOLDER" -> "src/StructFolderCheck.py"
      [] kind = "REORGANIZE" ->
            IF StructureOf(gp) = Ready THEN "src/no_reorganize.py"
            ELSE "src/reorganize_multiprocessing.py"
      [] kind = "DCM2NII" -> "src/dcm2nii_multiprocessing.py"
      [] kind = "SPATIAL_RESAMPLING" -> "src/NiftiSpatialResampling_multiprocessing.py"
      [] kind = "INTENSITY_RESAMPLING" -> "src/NiftiIntensityResampling_multiprocessing.py"
      [] kind = "MERGE_MASKS" -> "src/NiftiMergeVolumes_multiprocessing.py"
      [] kind = "MASK_THRESHOLDING" -> "src/NiftiMaskThresholding_multiprocessing.py"
      [] kind = "I-WINDOWING" -> "src/NiftiWindowing_multiprocessing.py"
      [] kind = "I-HARMONIZE" -> "src/NiftiImageHarmonization_multiprocessing.py"
      [] kind = "N4-BIAS-FIELD-CORRECTION" -> "src/NiftiN4BiasFieldCorrection_multiprocessing.py"
      [] kind = "RADIOMICS" -> "src/radiomics_multiprocessing.py"
      [] kind = "DELETE" -> "src/delete_folder.py"
      [] kind = "SEGMENTATION" -> "src/segmentation_multiprocessing.py"
      [] kind = "F-NORMALIZE" -> "src/feature_normalization.py"
      [] kind = "F-HARMONIZE" -> "src/feature_harmonization.py"
      [] kind = "PREDICT" -> "src/predict.py"
      [] kind = "COPY" -> "src/copy_folder_contents.py"

\* the flag list: the folder flags -i and -o (-f for DELETE) as str(...); for
\* RADIOMICS -j and the bare flag -x, present when it is appended; for
\* MERGE_MASKS -m and the options --add with --sub, and --reg, when given
Flags(kind, p) ==
    CASE kind \in {"CHECK_FOLDER", "SEGMENTATION"} -> ("-i" :> str(p["inputFolder"]))
      [] kind = "DELETE" -> ("-f" :> str(p["folder"]))
      [] kind = "COPY" ->
            ("-i" :> str(p["inputFolder"])) @@ ("-o" :> str(p["targetFolder"]))
      [] kind = "RADIOMICS" ->
            ("-i" :> str(p["inputFolder"])) @@ ("-o" :> str(p["outputFolder"]))
            @@ ("-j" :> str(p["multiprocessing"]))
            @@ (IF Truthy(p["save_at_the_end"]) THEN ("-x" :> EmptyStr) ELSE EmptyDict)
      [] kind = "MERGE_MASKS" ->
            ("-i" :> str(p["inputFolder"])) @@ ("-o" :> str(p["outputFolder"]))
            @@ ("-m" :> str(p["mask_name"]))
            @@ (IF Has(p, "add")
                THEN ("--add" :> str(p["add"])) @@ ("--sub" :> str(p["sub"]))
                ELSE EmptyDict)
            @@ (IF Has(p, "reg") THEN ("--reg" :> str(p["reg"])) ELSE EmptyDict)
      [] OTHER ->
            ("-i" :> str(p["inputFolder"])) @@ ("-o" :> str(p["outputFolder"]))

\* lines 236-237: the Ready branch of REORGANIZE appends the bare flag --mv
\* "if params['mv']:"
MoveFlag(kind, gp, p) ==
    IF kind = "REORGANIZE" /\ StructureOf(gp) = Ready /\ Truthy(p["mv"])
    THEN ("--mv" :> EmptyStr) ELSE EmptyDict

\* UpdatePrevious without the test for the empty string
UpdatePreviousAlways(p, prev) ==
    IF Has(p, "outputFolder") THEN p["outputFolder"] ELSE prev

\* lines 1470-1472
UpdatePrevious(p, prev) ==
    IF Has(p, "outputFolder") /\ p["outputFolder"] # EmptyStr
    THEN p["outputFolder"] ELSE prev

\* how a launched collaborator can end, as the try block sees it. The folder
\* probe is read through its output: the 'ready' message, the 'can be
\* reorganized' message, or neither; "nonzero" is a non-zero exit status and
\* "raise" an exception while launching.
Results(kind) ==
    IF kind = "CHECK_FOLDER"
    THEN {"ready", "reorganize", "neither", "nonzero", "raise"}
    ELSE {"ok", "nonzero", "raise"}

Failures == {"nonzero", "raise"}

\* global_params after the try block of a branch
AfterRun(kind, gp, r) ==
    CASE kind = "CHECK_FOLDER" /\ r = "ready" -> Put(gp, "Structure", Ready)
      [] kind = "CHECK_FOLDER" /\ r = "reorganize" -> Put(gp, "Structure", Ready_to_reorganize)
      [] kind = "CHECK_FOLDER" /\ r = "neither" -> Put(gp, "Structure", Invalid)
      [] kind = "SEGMENTATION" /\ r # "raise" -> Put(gp, "with-segmentation", PyTrue)
      [] OTHER -> gp

\* the first loop stops at block c: cfg["function"] is a Series when the
\* block holds a second 'function' label, or parse raises on a global value
CollectStops(c) ==
    \/ "function" \in Dup(c)
    \/ c.function = "GLOBAL_PARAMETERS" /\ ParseError(c) # "none"

\* the exception of the first loop, "none" when it ends
RECURSIVE CollectError(_)
CollectError(cfgs) ==
    IF cfgs = << >> THEN "none"
    ELSE IF "function" \in Dup(Head(cfgs)) THEN "ValueError"
    ELSE IF CollectStops(Head(cfgs)) THEN ParseError(Head(cfgs))
    ELSE CollectError(Tail(cfgs))

\* the GLOBAL_PARAMETERS blocks of the whole file, later ones written over
\* earlier, up to the value that stops the loop
RECURSIVE CollectGlobals(_, _)
CollectGlobals(cfgs, gp) ==
    IF cfgs = << >> THEN gp
    ELSE IF "function" \in Dup(Head(cfgs)) THEN gp
    ELSE IF Head(cfgs).function # "GLOBAL_PARAMETERS" THEN CollectGlobals(Tail(cfgs), gp)
    ELSE IF CollectStops(Head(cfgs))
         THEN Overlay(gp, ParseSome(Head(cfgs).p, ParsedLabels(Head(cfgs))))
         ELSE CollectGlobals(Tail(cfgs), Overlay(gp, ParseAll(Head(cfgs).p)))

-----------------------------------------------------------------------------
(* The run *)

cfg == configs[idx]
kindNow == cfg.function
InLoop == pc = "loop" /\ idx <= Len(configs)
IsStage == InLoop /\ kindNow # "GLOBAL_PARAMETERS"
rawParams == StageParams(global_params, cfg)
resolved == Resolve(kindNow, rawParams, inputPath, previous_outFolder)
\* REORGANIZE records 'Unknow' when no Structure was written
globalsAtLaunch ==
    IF kindNow = "REORGANIZE" THEN SetDefault(global_params, "Structure", Unknow)
    ELSE global_params

\* line 90: read_config_file fills configs, or ends the run
ReadConfigFile ==
    /\ pc = "read"
    /\ LET r == read_config_file(file, NoConfig, FALSE, << >>) IN
          /\ configs' = r.configs
          /\ IF r.error = "none"
             THEN pc' = "collect" /\ UNCHANGED <<exitCode, printed>>
             ELSE /\ pc' = "exited"
                  /\ exitCode' = IF r.error = "malformed" THEN 1 ELSE 0
                  /\ printed' = printed \cup
                        {Message(0, IF r.error = "malformed"
                                    THEN "ERROR in the PIPELINE file"
                                    ELSE "ERROR! The module does not exist",
                                 Join(r.line))}
    /\ UNCHANGED <<file, inputPath, global_params, params, previous_outFolder, idx,
                   calls, running, lastResult>>
    /\ UNCHANGED tvars

\* lines 93-97: the first loop over configs
ReadGlobals ==
    /\ pc = "collect"
    /\ global_params' = CollectGlobals(configs, global_params)
    /\ IF CollectError(configs) = "none"
       THEN pc' = "loop" /\ UNCHANGED <<exitCode, printed>>
       ELSE /\ pc' = "exited"
            /\ exitCode' = 1
            /\ printed' = printed \cup {Message(0, "Traceback", CollectError(configs))}
    /\ UNCHANGED <<file, configs, inputPath, params, previous_outFolder, idx, calls,
                   running, lastResult>>
    /\ UNCHANGED tvars

\* an iteration on a GLOBAL_PARAMETERS block: only lines 1470-1472 run
GlobalBlock ==
    /\ InLoop /\ kindNow = "GLOBAL_PARAMETERS"
    /\ previous_outFolder' = UpdatePrevious(params, previous_outFolder)
    /\ idx' = idx + 1
    /\ UNCHANGED <<file, configs, inputPath, global_params, params, pc, calls, running,
                   lastResult, exitCode, printed>>
    /\ UNCHANGED tvars

\* an iteration stops the run: sys.exit, or an uncaught exception
Abort ==
    /\ IsStage
    /\ Stops(cfg, rawParams, global_params)
    /\ pc' = "exited"
    /\ exitCode' = IF ParseError(cfg) # "none" THEN 1 ELSE FatalExitCode(kindNow, rawParams)
    /\ params' = rawParams
    /\ global_params' =
          IF ParseError(cfg) # "none" \/ MissingRequired(kindNow, rawParams)
          THEN global_params ELSE globalsAtLaunch
    /\ printed' = printed \cup {StopMessage(idx, cfg, rawParams, global_params)}
    /\ UNCHANGED <<file, configs, inputPath, previous_outFolder, idx, calls, running,
                   lastResult>>
    /\ UNCHANGED tvars

\* what the branch prints before it launches
LaunchMessages ==
    IF kindNow = "RADIOMICS" /\ SaveConflict(RadiomicsDefaults(rawParams))
    THEN {Message(idx, SaveWarning, "")} ELSE {}

\* Dispatch that starts the collaborator and goes on without waiting for it
DispatchNoWait ==
    /\ IsStage
    /\ ~Stops(cfg, rawParams, global_params)
    /\ ~LaunchesNothing(kindNow, resolved, global_params)
    /\ params' = resolved
    /\ global_params' = globalsAtLaunch
    /\ calls' = Append(calls, [stage |-> idx,
                               prog |-> Program(kindNow, global_params),
                               flags |-> Flags(kindNow, resolved)
                                         @@ MoveFlag(kindNow, global_params, resolved)])
    /\ running' = running \cup {idx}
    /\ previous_outFolder' = UpdatePrevious(resolved, previous_outFolder)
    /\ idx' = idx + 1
    /\ printed' = printed \cup LaunchMessages
    /\ UNCHANGED <<file, configs, inputPath, pc, lastResult, exitCode>>
    /\ UNCHANGED tvars

\* a branch resolves its params and launches its collaborator
Dispatch ==
    /\ IsStage
    /\ ~Stops(cfg, rawParams, global_params)
    /\ ~LaunchesNothing(kindNow, resolved, global_params)
    /\ params' = resolved
    /\ global_params' = globalsAtLaunch
    /\ calls' = Append(calls, [stage |-> idx,
                               prog |-> Program(kindNow, global_params),
                               flags |-> Flags(kindNow, resolved)
                                         @@ MoveFlag(kindNow, global_params, resolved)])
    /\ running' = running \cup {idx}
    /\ pc' = "running"
    /\ printed' = printed \cup LaunchMessages
    /\ UNCHANGED <<file, configs, inputPath, previous_outFolder, idx, lastResult, exitCode>>
    /\ UNCHANGED tvars

\* the try block raised: subprocess.run raises only when the launch fails,
\* subprocess.check_output also on a non-zero status, and the sys.exit that
\* follows an Invalid probe is raised inside the try block too
PrintsError(kind, r) ==
    \/ r = "raise"
    \/ kind = "CHECK_FOLDER" /\ r \in {"nonzero", "neither"}

\* what the except clause prints when the collaborator ended with r
ReturnMessages(r) ==
    IF PrintsError(kindNow, r)
    THEN {Message(idx, "ERROR running the script", ErrorScript(kindNow, global_params))}
    ELSE {}

\* Return without the except clause: an exception of the launch ends the run
ReturnAbortsOnRaise ==
    /\ pc = "running"
    /\ \E r \in Results(kindNow) :
          /\ lastResult' = r
          /\ global_params' = AfterRun(kindNow, global_params, r)
          /\ pc' = IF r = "raise" THEN "exited" ELSE "loop"
          /\ idx' = IF r = "raise" THEN idx ELSE idx + 1
          /\ previous_outFolder' =
                IF r = "raise" THEN previous_outFolder
                ELSE UpdatePrevious(params, previous_outFolder)
          /\ exitCode' = IF r = "raise" THEN 1 ELSE exitCode
          /\ printed' = printed \cup ReturnMessages(r)
    /\ running' = running \ {idx}
    /\ UNCHANGED <<file, configs, inputPath, params, calls>>
    /\ UNCHANGED tvars

\* the collaborator ends; the except clause swallows whatever the try block
\* raised, and lines 1470-1472 close the iteration
Return ==
    /\ pc = "running"
    /\ \E r \in Results(kindNow) :
          /\ lastResult' = r
          /\ global_params' = AfterRun(kindNow, global_params, r)
          /\ printed' = printed \cup ReturnMessages(r)
    /\ running' = running \ {idx}
    /\ previous_outFolder' = UpdatePrevious(params, previous_outFolder)
    /\ idx' = idx + 1
    /\ pc' = "loop"
    /\ UNCHANGED <<file, configs, inputPath, params, calls, exitCode>>
    /\ UNCHANGED tvars

\* REORGANIZE on a Ready folder with inplace: nothing is launched
NoLaunch ==
    /\ IsStage
    /\ ~Stops(cfg, rawParams, global_params)
    /\ LaunchesNothing(kindNow, resolved, global_params)
    /\ params' = resolved
    /\ previous_outFolder' = UpdatePrevious(resolved, previous_outFolder)
    /\ idx' = idx + 1
    /\ UNCHANGED <<file, configs, inputPath, global_params, pc, calls, running,
                   lastResult, exitCode, printed>>
    /\ UNCHANGED tvars

\* the loop is over: main returns
Finish ==
    /\ pc = "loop" /\ idx > Len(configs)
    /\ pc' = "end"
    /\ exitCode' = 0
    /\ UNCHANGED <<file, configs, inputPath, global_params, params, previous_outFolder,
                   idx, calls, running, lastResult, printed>>
    /\ UNCHANGED tvars

Next ==
    \/ ReadConfigFile \/ ReadGlobals \/ GlobalBlock \/ Abort \/ Dispatch \/ Return
    \/ NoLaunch \/ Finish

-----------------------------------------------------------------------------
(* The explored config files and command lines *)

FolderA == <<"/", "a", "/">>
FolderB == <<"/", "b">>
FolderIn == <<"/", "i", "n">>
SuffixS == <<"s">>
FolderData == <<"/", "d", "a", "t", "a">>
SuffixReady == <<"r", "e", "a", "d", "y">>
CfgTxt == <<"/", "c", "f", "g", ".", "t", "x", "t">>
FolderDataReady == FolderData \o <<"_">> \o SuffixReady

\* the order in which the explored files write the parameters of a block
KeyOrder ==
    <<"inputFolder", "folder", "outputFolder", "outputFolderSuffix", "targetFolder",
      "inplace", "mv", "reg", "add", "sub", "mask_name", "reference_image", "configs",
      "pyradiomics_config", "save_at_the_end", "multiprocessing", "timer">>

\* the record read_config_file builds for a block of this kind with parameters p
Block(kind, p) ==
    [function |-> kind, index |-> SelectSeq(KeyOrder, LAMBDA k : k \in DOMAIN p), p |-> p]

\* the lines of a file
Open == <<"{">>
Close == <<"}">>
Param(key, v) == Spell[key] \o <<":">> \o v
BlockLines(b) ==
    <<Spell[b.function], Open>>
    \o [n \in 1..Len(b.index) |-> Param(b.index[n], b.p[b.index[n]])]
    \o <<Close>>
RECURSIVE FileOf(_)
FileOf(blocks) ==
    IF blocks = << >> THEN << >> ELSE BlockLines(Head(blocks)) \o FileOf(Tail(blocks))

\* the parameters a kind needs besides its folders to pass its validation
Required(kind) ==
    CASE kind = "MERGE_MASKS" -> ("reg" :> <<"r">>) @@ ("mask_name" :> <<"m">>)
      [] kind = "I-HARMONIZE" -> ("reference_image" :> <<"r">>)
      [] kind = "RADIOMICS" -> ("configs" :> CfgTxt)
      [] OTHER -> EmptyDict

InputChoices(kind) ==
    {EmptyDict} \cup
    {(InputKey(kind) :> v) : v \in {DOT, PREVIOUS_BLOCK_OUTPUT_FOLDER, FolderA}}

OutputChoices ==
    {EmptyDict, ("outputFolder" :> FolderB), ("outputFolderSuffix" :> SuffixS)}

\* one block of every kind, with every way of naming its folders
AnyBlocks ==
    UNION {{Block(k, Overlay(Overlay(Required(k), i), o)) :
                i \in InputChoices(k), o \in OutputChoices} : k \in StageKinds}
    \cup {Block("REORGANIZE", ("inputFolder" :> FolderA) @@ ("inplace" :> v)) :
                v \in {<<"T","r","u","e">>, <<"F","a","l","s","e">>}}
    \cup {Block("REORGANIZE", ("inputFolder" :> FolderA) @@ ("mv" :> v)) :
                v \in {<<"T","r","u","e">>, <<"F","a","l","s","e">>}}
    \cup {Block(k, ("inputFolder" :> FolderA)) : k \in {"RADIOMICS", "I-HARMONIZE"}}
    \cup {Block("MERGE_MASKS", ("inputFolder" :> FolderA) @@ o) :
                o \in {("mask_name" :> <<"m">>),
                       ("reg" :> <<"r">>),
                       ("reg" :> <<"r">>) @@ ("mask_name" :> <<"m">>),
                       ("add" :> <<"x">>) @@ ("mask_name" :> <<"m">>),
                       ("sub" :> <<"y">>) @@ ("mask_name" :> <<"m">>),
                       ("reg" :> <<"r">>) @@ ("add" :> <<"x">>) @@ ("mask_name" :> <<"m">>),
                       ("reg" :> <<"r">>) @@ ("sub" :> <<"y">>) @@ ("mask_name" :> <<"m">>),
                       ("add" :> <<"x">>) @@ ("sub" :> <<"y">>) @@ ("mask_name" :> <<"m">>),
                       ("reg" :> <<"r">>) @@ ("add" :> <<"x">>) @@ ("sub" :> <<"y">>)
                            @@ ("mask_name" :> <<"m">>)}}

\* the blocks the surrounding stages are made of
ContextBlocks ==
    {Block("CHECK_FOLDER", ("inputFolder" :> FolderA)),
     Block("DCM2NII", ("inputFolder" :> FolderA) @@ ("outputFolder" :> FolderB)),
     Block("REORGANIZE", ("inputFolder" :> PREVIOUS_BLOCK_OUTPUT_FOLDER)
                          @@ ("outputFolderSuffix" :> SuffixS)),
     Block("GLOBAL_PARAMETERS", ("inplace" :> <<"T","r","u","e">>))}

Followers ==
    {<< >>, <<Block("COPY", ("inputFolder" :> PREVIOUS_BLOCK_OUTPUT_FOLDER))>>}

RECURSIVE SeqsUpTo(_, _)
SeqsUpTo(S, n) ==
    IF n = 0 THEN {<< >>}
    ELSE LET shorter == SeqsUpTo(S, n - 1)
         IN shorter \cup {Append(s, b) : s \in {t \in shorter : Len(t) = n - 1}, b \in S}

\* the scenario of spec section 8
EndToEnd ==
    <<Block("CHECK_FOLDER", ("inputFolder" :> FolderData)),
      Block("REORGANIZE", ("inputFolder" :> PREVIOUS_BLOCK_OUTPUT_FOLDER)
                           @@ ("outputFolderSuffix" :> SuffixReady)),
      Block("RADIOMICS", ("inputFolder" :> PREVIOUS_BLOCK_OUTPUT_FOLDER)
                          @@ ("configs" :> CfgTxt))>>

ConfigFiles ==
    SeqsUpTo(ContextBlocks, MaxStages)
    \cup {c \o <<b>> \o f : c \in SeqsUpTo(ContextBlocks, MaxContext),
                            b \in AnyBlocks, f \in Followers}
    \cup {EndToEnd}

\* raw values a parameter line can give to parse
TrueWords == {<<"T","r","u","e">>, <<"t","r","u","e">>, <<"T","R","U","E">>}
FalseWords == {<<"F","a","l","s","e">>, <<"f","a","l","s","e">>, <<"F","A","L","S","E">>}
RawValues ==
    TrueWords \cup FalseWords \cup
    {EmptyStr, <<"1","2">>, <<"0","0","7">>, <<"-","3">>, <<"1","_","0">>,
     <<"1",".","5","0">>, <<".","5">>, <<"5",".">>, <<"n","a","n">>,
     <<"p","i">>, <<"2","*","p","i">>, <<"'","p","i","'">>,
     <<"[">>, <<"]">>, <<"[","1",",","a","]">>, <<"[","a",",",",","b","]">>,
     <<"[","a",",","[","b","]">>, <<"a","b","c">>, <<"1","2","a">>, <<"1",".","2",".","3">>}

NotAStage == <<"N","O","T","_","A","_","R","E","A","L","_","S","T","A","G","E">>
CheckA == Block("CHECK_FOLDER", ("inputFolder" :> FolderA))
CopyPrevious == Block("COPY", ("inputFolder" :> PREVIOUS_BLOCK_OUTPUT_FOLDER))
InA == Param("inputFolder", FolderA)
OutB == Param("outputFolder", FolderB)

\* pieces of a file that are not a plain block: lines out of place, lines that
\* are not parameters, comments and blanks, a key given twice, colons in a value
Oddities ==
    {<<NotAStage>>,
     <<Spell["DCM2NII"], Open, Spell["inputFolder"], Close>>,
     <<Spell["DCM2NII"], Open, InA, Spell["outputFolder"], Close>>,
     <<Spell["DCM2NII"], NotAStage, Open, InA, OutB, Close>>,
     <<Spell["DCM2NII"], OutB, Open, InA, Close>>,
     <<Spell["CHECK_FOLDER"], Spell["DCM2NII"], Open, InA, Close>>,
     <<Spell["DCM2NII"], Close, Open, InA, OutB, Close>>,
     <<Spell["DCM2NII"]>>,
     <<<<"#"," ">> \o NotAStage, EmptyStr,
       <<" "," ">> \o Spell["DCM2NII"] \o <<" ","#"," ","c",":","d">>, <<" ">> \o Open,
       <<"\t">> \o Spell["inputFolder"] \o <<" ",":"," ">> \o FolderA \o <<" ","#","i","n">>,
       OutB, Close \o <<" ">>>>,
     <<<<"R","U","N","_">> \o Spell["DCM2NII"] \o <<"_","N","O","W">>, Open, InA, OutB, Close>>,
     <<Spell["DCM2NII"], Open, InA, Param("inputFolder", FolderIn), OutB, Close>>,
     <<Spell["DCM2NII"], Open, InA, OutB, OutB, Close>>,
     <<Spell["GLOBAL_PARAMETERS"], Open, Param("timer", <<"T","r","u","e">>),
       Param("timer", <<"T","r","u","e">>), Close>>,
     <<Spell["DCM2NII"], Open, InA, Param("outputFolder", FolderB \o <<":">> \o <<"/","c">>), Close>>,
     <<Spell["DCM2NII"], Open, Param("inputFolder", <<"C",":","/","a">>), OutB, Close>>,
     <<Spell["DCM2NII"], Open, InA, Param("outputFolder", <<"/","b",":","c",":","d">>), Close>>}
    \cup {<<Spell[k], Open>> \o (IF k = "CHECK_FOLDER" THEN <<InA>> ELSE << >>)
             \o <<Param("timer", v), Close>> :
             k \in {"CHECK_FOLDER", "GLOBAL_PARAMETERS"}, v \in RawValues}

\* a file with an oddity, after a probe or not, before a copy or not
OddFiles ==
    {pre \o odd \o post : pre \in {<< >>, FileOf(<<CheckA>>)}, odd \in Oddities,
                            post \in {<< >>, FileOf(<<CopyPrevious>>)}}

\* RADIOMICS with save_at_the_end and multiprocessing given by the block, by
\* the global parameters, by both or by neither
SaveChoices ==
    {EmptyDict} \cup {("save_at_the_end" :> v) :
        v \in {<<"T","r","u","e">>, <<"F","a","l","s","e">>, <<"T","R","U","E">>, <<"1">>, <<"2">>}}
JobsChoices ==
    {EmptyDict} \cup {("multiprocessing" :> v) :
        v \in {<<"1">>, <<"4">>, <<"2",".","5">>, <<"t","w","o">>}}
RadiomicsFiles ==
    {FileOf(g \o <<Block("RADIOMICS",
                         Overlay(Overlay(("inputFolder" :> FolderA) @@ ("configs" :> CfgTxt), sv), j))>>) :
        sv \in SaveChoices, j \in JobsChoices,
        g \in {<< >>,
               <<Block("GLOBAL_PARAMETERS", ("save_at_the_end" :> <<"T","r","u","e">>))>>,
               <<Block("GLOBAL_PARAMETERS", ("save_at_the_end" :> <<"T","r","u","e">>)
                                            @@ ("multiprocessing" :> <<"4">>))>>}}

Files == {FileOf(c) : c \in ConfigFiles} \cup OddFiles \cup RadiomicsFiles

Init ==
    /\ file \in Files
    /\ configs = << >>
    /\ inputPath \in {EmptyStr, FolderIn}
    /\ global_params = EmptyDict
    /\ params = EmptyDict
    /\ previous_outFolder = EmptyStr
    /\ pc = "read"
    /\ idx = 1
    /\ calls = << >>
    /\ running = {}
    /\ lastResult = "none"
    /\ exitCode = -1
    /\ printed = {}
    /\ infile = << >> /\ outfile = << >>
    /\ strategy = "" /\ predictModule = FALSE
    /\ testing_config = "" /\ newInputFolder = EmptyStr /\ resultFolder = EmptyStr
    /\ lineno = 1 /\ prompts = << >>
    /\ gen = "idle"

Spec == Init /\ [][Next]_vars

-----------------------------------------------------------------------------
(* Properties *)

LastCall == calls[Len(calls)]
BlockOf(j) == configs[calls[j].stage]
ProgramsOf(kind) == {Program(kind, g) : g \in {EmptyDict, ("Structure" :> Ready)}}

\* C1: collaborators are launched in the file order of the stage blocks, each
\* block at most once, and a collaborator is launched only when every
\* collaborator launched before it has returned.
C1_FileOrderOneAtATime ==
    /\ \A j \in 1..Len(calls) :
          /\ calls[j].stage \in 1..Len(configs)
          /\ BlockOf(j).function \in StageKinds
          /\ calls[j].prog \in ProgramsOf(BlockOf(j).function)
          /\ calls[j].stage <= idx
    /\ \A j, k \in 1..Len(calls) : j < k => calls[j].stage < calls[k].stage
    /\ \A j \in 1..(Len(calls) - 1) : calls[j].stage \notin running
    /\ running # {} => pc = "running" /\ running = {idx} /\ LastCall.stage = idx
    /\ pc = "running" => running = {idx}

\* two collaborators have returned and a third one is running
C1_Witness ==
    /\ Len(calls) = 3 /\ running = {3}
    /\ calls[1].prog # calls[2].prog

\* C2: an iteration of the loop ends with previous_outFolder equal to the
\* outputFolder of the iteration's params when they hold a non-empty one and
\* unchanged otherwise, however the collaborator ended; it starts empty and
\* nothing else changes it.
C2_PreviousOutFolder ==
    /\ previous_outFolder = EmptyStr
    /\ [][/\ idx' = idx + 1 =>
                previous_outFolder' =
                    IF Has(params', "outputFolder") /\ params'["outputFolder"] # EmptyStr
                    THEN params'["outputFolder"] ELSE previous_outFolder
          /\ previous_outFolder' # previous_outFolder => idx' = idx + 1]_vars

\* the collaborator of a stage with an output folder failed and the folder was recorded
C2_Witness ==
    /\ pc = "loop" /\ idx = 3 /\ lastResult \in Failures
    /\ configs[2].function \in StageKinds
    /\ Has(params, "outputFolder") /\ params["outputFolder"] # EmptyStr
    /\ previous_outFolder = params["outputFolder"]
    /\ configs[1].function \in StageKinds /\ ~Has(configs[1].p, "outputFolder")

\* C3 (as claimed): a stage whose inputFolder is PREVIOUS_BLOCK_OUTPUT_FOLDER is
\* launched with -i equal to previous_outFolder, never with the token itself.
C3_TokenSubstituted ==
    \A j \in 1..Len(calls) :
        (/\ BlockOf(j).function # "DELETE"
         /\ Has(BlockOf(j).p, "inputFolder")
         /\ BlockOf(j).p["inputFolder"] = PREVIOUS_BLOCK_OUTPUT_FOLDER)
        => /\ calls[j].flags["-i"] # PREVIOUS_BLOCK_OUTPUT_FOLDER
           /\ (j = Len(calls) /\ pc = "running") => calls[j].flags["-i"] = previous_outFolder

\* the call of stage k, when it was launched
CallsOfStage(k) == {j \in 1..Len(calls) : calls[j].stage = k}
IsStageBlock(k) == k \in 1..Len(configs) /\ configs[k].function \in StageKinds
InputIs(k, v) == Has(configs[k].p, "inputFolder") /\ configs[k].p["inputFolder"] = v

\* C4 (as claimed): three consecutive stages, the first declaring outputFolder v,
\* the second reading PREVIOUS_BLOCK_OUTPUT_FOLDER and declaring no output, the
\* third reading PREVIOUS_BLOCK_OUTPUT_FOLDER: the second and the third are
\* launched with -i v and previous_outFolder is v after the second.
C4_ChainAcrossNoOutput ==
    \A k \in 1..Len(configs) :
        (/\ IsStageBlock(k) /\ IsStageBlock(k + 1) /\ IsStageBlock(k + 2)
         /\ Has(configs[k].p, "outputFolder")
         /\ configs[k].p["outputFolder"] # EmptyStr
         /\ InputIs(k + 1, PREVIOUS_BLOCK_OUTPUT_FOLDER)
         /\ ~Has(configs[k + 1].p, "outputFolder")
         /\ ~Has(configs[k + 1].p, "outputFolderSuffix")
         /\ InputIs(k + 2, PREVIOUS_BLOCK_OUTPUT_FOLDER))
        => LET v == configs[k].p["outputFolder"] IN
           /\ \A j \in CallsOfStage(k + 1) : calls[j].flags["-i"] = v
           /\ (idx = k + 2 /\ pc \in {"loop", "running"}) => previous_outFolder = v
           /\ \A j \in CallsOfStage(k + 2) : calls[j].flags["-i"] = v

\* C5 (as claimed): in the end-to-end scenario, once the probe said 'ready to
\* reorganize', reorganization is launched with -i /data -o /data_ready and
\* radiomics with -i /data_ready.
C5_EndToEnd ==
    (/\ configs = EndToEnd
     /\ Has(global_params, "Structure")
     /\ global_params["Structure"] = Ready_to_reorganize)
    => /\ Len(calls) >= 2 =>
            /\ calls[2].prog = "src/reorganize_multiprocessing.py"
            /\ calls[2].flags["-i"] = FolderData
            /\ calls[2].flags["-o"] = FolderDataReady
       /\ Len(calls) >= 3 =>
            /\ calls[3].prog = "src/radiomics_multiprocessing.py"
            /\ calls[3].flags["-i"] = FolderDataReady

\* C6 (as claimed): a stage of a kind that accepts outputFolderSuffix, with a
\* suffix s and no outputFolder, is launched with -o equal to its -i folder
\* without trailing '/', then '_', then s.
C6_SuffixOnResolvedInput ==
    \A j \in 1..Len(calls) :
        (/\ BlockOf(j).function \in SuffixKinds
         /\ ~Has(BlockOf(j).p, "outputFolder")
         /\ Has(BlockOf(j).p, "outputFolderSuffix"))
        => calls[j].flags["-o"] =
              rstrip(calls[j].flags["-i"]) \o <<"_">> \o BlockOf(j).p["outputFolderSuffix"]

\* inplace as the REORGANIZE branch resolves it (False when nobody sets it)
inplaceNow == IF Has(rawParams, "inplace") THEN rawParams["inplace"] ELSE PyFalse
Launched(prog) ==
    /\ Len(calls') = Len(calls) + 1
    /\ SubSeq(calls', 1, Len(calls)) = calls
    /\ calls'[Len(calls) + 1].stage = idx
    /\ calls'[Len(calls) + 1].prog = prog
    /\ pc' = "running"

\* C7: a REORGANIZE stage that has its inputFolder acts on the Structure status
\* of global_params: Invalid ends the run with nothing launched; Ready launches
\* the no-op rename when inplace is False and nothing when inplace is True; any
\* other status, or none, launches the reorganization. Nothing is launched
\* once the run has ended.
C7_ReorganizeDispatch ==
    [][/\ (IsStage /\ kindNow = "REORGANIZE" /\ Has(rawParams, "inputFolder")) =>
            CASE StructureOf(global_params) = Invalid ->
                    pc' = "exited" /\ calls' = calls
              [] StructureOf(global_params) = Ready /\ inplaceNow = PyFalse ->
                    Launched("src/no_reorganize.py")
              [] StructureOf(global_params) = Ready /\ inplaceNow = PyTrue ->
                    calls' = calls /\ pc' = "loop" /\ idx' = idx + 1
              [] OTHER ->
                    Launched("src/reorganize_multiprocessing.py")
       /\ pc = "exited" => calls' = calls /\ pc' = "exited"]_vars

\* the no-op rename was launched for a REORGANIZE stage after a Ready probe
C7_Witness ==
    /\ pc = "running" /\ kindNow = "REORGANIZE"
    /\ LastCall.prog = "src/no_reorganize.py"
    /\ global_params["Structure"] = Ready

\* C8 (as claimed): when the iteration of a CHECK_FOLDER stage is over,
\* global_params holds a Structure status among Ready, Ready_to_reorganize and
\* Invalid, and it is the one this stage's probe gave.
C8_StructureAlwaysWritten ==
    (pc = "loop" /\ idx > 1 /\ configs[idx - 1].function = "CHECK_FOLDER")
    => /\ Has(global_params, "Structure")
       /\ global_params["Structure"] \in {Ready, Ready_to_reorganize, Invalid}
       /\ lastResult = "ready" => global_params["Structure"] = Ready
       /\ lastResult = "reorganize" => global_params["Structure"] = Ready_to_reorganize
       /\ lastResult = "neither" => global_params["Structure"] = Invalid

\* C9 (as claimed): a stage whose inputFolder is '.' is launched with the -i
\* path of the command line; without one, neither it nor a later stage is
\* launched.
C9_DotNeedsInputPath ==
    \A j \in 1..Len(calls) :
        /\ InputIs(calls[j].stage, DOT) =>
              inputPath # EmptyStr /\ calls[j].flags["-i"] = inputPath
        /\ \A k \in 1..calls[j].stage :
              (IsStageBlock(k) /\ configs[k].function # "DELETE" /\ InputIs(k, DOT))
              => inputPath # EmptyStr

\* the file was read and its global parameters collected without an error,
\* and every stage block passes the validation of its kind
AllStagesValid ==
    /\ \A m \in printed : m.stage # 0
    /\ \A k \in 1..Len(configs) :
          configs[k].function \in StageKinds =>
              LET p == StageParams(CollectGlobals(configs, EmptyDict), configs[k]) IN
              /\ ParseError(configs[k]) = "none"
              /\ ~MissingRequired(configs[k].function, p)
              /\ ~FlagKeyError(configs[k].function, p)
              /\ ~CompareError(configs[k].function, p)

\* C10: in a file of valid stages a collaborator that fails does not end the
\* run: however the collaborator ended, the step that follows its launch goes
\* on to the next block; the run only stops early at a REORGANIZE stage that
\* finds Structure Invalid, and at its end every stage was launched once, in
\* order (a REORGANIZE stage at most once).
C10_FailureDoesNotAbort ==
    /\ [](AllStagesValid =>
            /\ pc = "exited" => kindNow = "REORGANIZE" /\ StructureOf(global_params) = Invalid
            /\ pc = "end" =>
                  \A k \in 1..Len(configs) :
                      (IsStageBlock(k) /\ configs[k].function # "REORGANIZE")
                      => Cardinality(CallsOfStage(k)) = 1)
    /\ [][pc = "running" => pc' = "loop" /\ idx' = idx + 1 /\ calls' = calls]_vars

\* the collaborator of a stage raised and the next stage was launched
C10_Witness ==
    /\ AllStagesValid /\ pc = "running" /\ lastResult = "raise"
    /\ Len(calls) >= 2 /\ LastCall.stage = idx

\* the error the except clause of a branch printed for stage k
ErrorsOf(k) == {m \in printed : m.stage = k /\ m.msg = "ERROR running the script"}

\* C11 (as claimed): when the collaborator of a stage has ended with a non-zero
\* status or its launch raised, the iteration ends with an error printed for
\* that stage, naming the script that was run.
C11_FailuresReported ==
    (/\ pc = "loop" /\ Len(calls) > 0 /\ LastCall.stage = idx - 1
     /\ lastResult \in Failures)
    => \E m \in ErrorsOf(idx - 1) : "src/" \o m.arg = LastCall.prog

\* the parameters of block k once the global ones are filled in
FilledParams(k) == StageParams(CollectGlobals(configs, EmptyDict), configs[k])

\* block k lacks a parameter its kind requires
LacksRequired(k) ==
    LET kind == configs[k].function
        p == FilledParams(k)
    IN /\ ParseError(configs[k]) = "none"
       /\ \/ kind = "DELETE" /\ ~Has(p, "folder")
          \/ kind # "DELETE" /\ ~Has(p, "inputFolder")
          \/ kind \in {"DCM2NII", "SPATIAL_RESAMPLING"}
               /\ ~Has(p, "outputFolder") /\ ~Has(p, "outputFolderSuffix")
          \/ kind = "RADIOMICS" /\ ~Has(p, "configs") /\ ~Has(p, "pyradiomics_config")
          \/ kind = "I-HARMONIZE" /\ ~Has(p, "reference_image")

\* C12: a stage block that lacks a parameter its kind requires stops the run
\* when the loop reaches it: no collaborator is ever launched for it or for a
\* later block, the step taken at it ends the run, and the run that stopped
\* there has launched every stage before it once (a REORGANIZE stage at most
\* once).
C12_MissingRequiredIsFatal ==
    /\ [](\A k \in 1..Len(configs) :
            (IsStageBlock(k) /\ LacksRequired(k)) =>
                /\ idx <= k
                /\ \A j \in 1..Len(calls) : calls[j].stage < k
                /\ idx = k => pc \in {"collect", "loop", "exited"}
                /\ (idx = k /\ pc = "exited") =>
                      \A j \in 1..(k - 1) :
                          (IsStageBlock(j) /\ configs[j].function # "REORGANIZE")
                          => Cardinality(CallsOfStage(j)) = 1)
    /\ [][(IsStage /\ LacksRequired(idx)) => pc' = "exited" /\ calls' = calls]_vars

\* the run stopped at a RADIOMICS or I-HARMONIZE stage that lacks its own
\* parameter, after the stage before it was launched
C12_Witness ==
    /\ pc = "exited" /\ idx = 2 /\ Len(calls) = 1 /\ calls[1].stage = 1
    /\ kindNow \in {"RADIOMICS", "I-HARMONIZE"}
    /\ Has(FilledParams(2), "inputFolder") /\ LacksRequired(2)

\* C13 (as claimed): the process ends with status 0 when the loop has run to
\* its end, and with a non-zero status when the run was stopped.
C13_ExitStatus ==
    /\ pc = "end" => exitCode = 0
    /\ pc = "exited" => exitCode # 0

\* the lines of the file that are neither blank nor a comment, stripped
Meaningful(f) ==
    SelectSeq([n \in 1..Len(f) |-> strip(f[n])],
              LAMBDA l : l # EmptyStr /\ l[1] # "#")

\* line n of ls lies between a '{' line and the '}' line that closes it
InBlock(ls, n) ==
    \E m \in 1..(n - 1) :
        /\ ls[m][1] = "{"
        /\ \A j \in (m + 1)..(n - 1) : ls[j][1] # "}"

\* the text of a line before its comment has a colon
HasColon(l) == \E n \in 1..Len(split(l, "#")[1]) : split(l, "#")[1][n] = ":"

\* line n of ls is a parse error: outside a block it names no module, or inside
\* a block it has no colon
Offending(ls, n) ==
    /\ ls[n][1] \notin {"{", "}"}
    /\ IF InBlock(ls, n) THEN ~HasColon(ls[n]) ELSE MatchKind(ls[n]) = ""

\* C14 (as claimed): when the file holds, anywhere, a line outside a block that
\* names no module or a line inside a block that has no colon, the reading of
\* the file ends the run and no collaborator is ever launched.
C14_ParseErrorsBeforeRun ==
    (pc # "read" /\ \E n \in 1..Len(Meaningful(file)) : Offending(Meaningful(file), n))
    => pc = "exited" /\ calls = << >>

\* block k of the file that was read gives the same key twice
HasDuplicateKey(k) == Dup(configs[k]) # {}

\* C15 (as claimed): when a block of the file holds the same key twice, the run
\* is stopped by the reading of the file: no collaborator is ever launched and
\* the error printed is the one of the reader, with the line it stopped at.
C15_DuplicateKeyIsParseError ==
    (pc # "read" /\ \E k \in 1..Len(configs) : HasDuplicateKey(k))
    => /\ pc = "exited" /\ calls = << >>
       /\ \E m \in printed : m.stage = 0 /\ m.msg = "ERROR in the PIPELINE file"

\* line n of ls is a module line: it lies outside a block and names a module
KindLineAt(ls, n) ==
    /\ ls[n][1] \notin {"{", "}"}
    /\ ~InBlock(ls, n)
    /\ MatchKind(ls[n]) # ""

\* the reading of the file stopped the run
ReadFailed == pc = "exited" /\ \E m \in printed : m.stage = 0

\* C16 (as claimed): when a module line of the file is not followed by a line
\* that begins with '{', the reading of the file stops the run; and a file that
\* was accepted gives one block for each of its module lines.
C16_BraceAfterKindLine ==
    LET ls == Meaningful(file)
        kindLines == {n \in 1..Len(ls) : KindLineAt(ls, n)}
    IN pc # "read" =>
        /\ (\E n \in kindLines : n = Len(ls) \/ ls[n + 1][1] # "{") => ReadFailed
        /\ ~ReadFailed => Len(configs) = Cardinality(kindLines)

\* the place of the first colon of l, 0 when it has none
FirstColon(l) ==
    IF \A n \in 1..Len(l) : l[n] # ":" THEN 0
    ELSE CHOOSE n \in 1..Len(l) : l[n] = ":" /\ \A m \in 1..(n - 1) : l[m] # ":"

\* a parameter line cut at its first colon only
KeyOf(l) == SubSeq(l, 1, FirstColon(l) - 1)
ValueOf(l) == SubSeq(l, FirstColon(l) + 1, Len(l))

\* line n of ls is a parameter line whose value holds a colon and no comment
ColonInValue(ls, n) ==
    /\ InBlock(ls, n)
    /\ ls[n][1] \notin {"{", "}"}
    /\ FirstColon(ls[n]) > 1
    /\ \E m \in 1..Len(ValueOf(ls[n])) : ValueOf(ls[n])[m] = ":"
    /\ \A m \in 1..Len(ls[n]) : ls[n][m] # "#"

\* C17 (as claimed): a parameter line whose value holds colons gives, in the
\* block it belongs to, its key the whole text after the first colon.
C17_SplitOnFirstColon ==
    LET ls == Meaningful(file) IN
    (pc # "read" /\ ~ReadFailed) =>
        \A n \in 1..Len(ls) :
            ColonInValue(ls, n) =>
                \E k \in 1..Len(configs) :
                    /\ Has(configs[k].p, Join(KeyOf(RemoveBlanks(ls[n]))))
                    /\ configs[k].p[Join(KeyOf(RemoveBlanks(ls[n])))] = ValueOf(RemoveBlanks(ls[n]))

\* the raw values the reader took from the parameter lines of the file
RawOf(cs) == UNION {{cs[k].p[x] : x \in DOMAIN cs[k].p} : k \in 1..Len(cs)}

\* C18 (as claimed): parse gives a value for every raw value read from a
\* parameter line and never raises, so that no run dies of it; and the value
\* it gives is the raw string itself whenever it is a string.
C18_ParseIsTotal ==
    pc # "read" =>
        /\ \A v \in RawOf(configs) :
              /\ parse(v) # IndexError
              /\ ~IsTagged(parse(v)) => parse(v) = v
        /\ \A m \in printed : ~(m.msg = "Traceback" /\ m.arg = "IndexError")

\* C19 (as claimed): of a non-empty raw value read from a parameter line, every
\* case variant of true or false becomes the boolean; otherwise an integer
\* literal becomes an integer; otherwise a float literal becomes a float; and a
\* value that is none of these and does not start with '[' stays the string it
\* was. A stage that is launched holds the boolean for such a variant.
C19_CoercionPrecedence ==
    /\ pc # "read" =>
          \A v \in RawOf(configs) \ {EmptyStr} :
              IF lower(v) = <<"t","r","u","e">> THEN parse(v) = PyTrue
              ELSE IF lower(v) = <<"f","a","l","s","e">> THEN parse(v) = PyFalse
              ELSE IF IsIntLiteral(v) THEN parse(v) = IntValue(v)
              ELSE IF IsFloatLiteral(v) THEN parse(v) = FloatValue(v)
              ELSE v[1] # "[" => parse(v) = v
    /\ (pc = "running" /\ Has(cfg.p, "timer") /\ Dup(cfg) = {}) =>
          /\ lower(cfg.p["timer"]) = <<"t","r","u","e">> => params["timer"] = PyTrue
          /\ lower(cfg.p["timer"]) = <<"f","a","l","s","e">> => params["timer"] = PyFalse

\* C20 (as claimed): a RADIOMICS stage that is launched with multiprocessing
\* greater than 1 holds save_at_the_end False and its collaborator gets no -x
\* flag; with multiprocessing 1 the flag is passed exactly when save_at_the_end
\* is true.
C20_SaveAtTheEndConflict ==
    (pc = "running" /\ kindNow = "RADIOMICS") =>
        LET jobs == params["multiprocessing"]
            save == params["save_at_the_end"]
        IN /\ (IsNumber(jobs) /\ GreaterThanOne(jobs)) =>
                  save = PyFalse /\ ~Has(LastCall.flags, "-x")
           /\ jobs = PyInt(<<"1">>) => (Has(LastCall.flags, "-x") <=> Truthy(save))

\* the options of a MERGE_MASKS block are the ones the claim accepts: reg
\* without add and sub, or add without reg
MergeOptionsAccepted(p) ==
    \/ Has(p, "reg") /\ ~Has(p, "add") /\ ~Has(p, "sub")
    \/ Has(p, "add") /\ ~Has(p, "reg")

\* the error of the MERGE_MASKS validation was printed for block k
MergeErrorAt(k) ==
    \E m \in printed :
        /\ m.stage = k
        /\ m.msg = "ERROR! To determine the masks to add and substract the options add and sub OR reg need to be used"

\* C21 (as claimed): a MERGE_MASKS block with an input folder is launched only
\* when it gives reg without add and sub, or add without reg; with any other
\* combination the run stops at it with the error of the validation and nothing
\* is launched for it; with an accepted one the run does not stop on that
\* error, and a launched block that gives add without sub holds sub = ''.
C21_MergeMasksValidation ==
    \A k \in 1..Len(configs) :
        (/\ configs[k].function = "MERGE_MASKS"
         /\ ParseError(configs[k]) = "none"
         /\ Has(FilledParams(k), "inputFolder"))
        => /\ ~MergeOptionsAccepted(FilledParams(k)) =>
                 /\ CallsOfStage(k) = {}
                 /\ (idx = k /\ pc \in {"running", "exited", "end"}) =>
                        pc = "exited" /\ MergeErrorAt(k)
           /\ MergeOptionsAccepted(FilledParams(k)) => ~MergeErrorAt(k)
           /\ (pc = "running" /\ idx = k /\ Has(FilledParams(k), "add")) =>
                 /\ Has(params, "sub")
                 /\ Has(FilledParams(k), "sub") \/ params["sub"] = EmptyStr
                 /\ LastCall.flags["--sub"] = str(params["sub"])

\* the values of the GLOBAL_PARAMETERS blocks that come before block k
GlobalsBefore(k) == CollectGlobals(SubSeq(configs, 1, k - 1), EmptyDict)

\* the keys the GLOBAL_PARAMETERS blocks of the file give (save_at_the_end,
\* which the RADIOMICS branch may reset, left aside)
GlobalKeys == DOMAIN CollectGlobals(configs, EmptyDict) \ {"save_at_the_end"}

\* C22 (as claimed): a stage that is launched holds, for every key of a
\* GLOBAL_PARAMETERS block, its own value when its block sets the key, else the
\* value of the GLOBAL_PARAMETERS blocks that come before it in the file; a key
\* that only a later GLOBAL_PARAMETERS block gives is resolved as if that block
\* were not there.
C22_GlobalsApplyToLaterStages ==
    (pc = "running" /\ ParseError(cfg) = "none") =>
        LET without == Resolve(kindNow, StageParams(GlobalsBefore(idx), cfg),
                               inputPath, previous_outFolder)
        IN \A x \in GlobalKeys :
              IF Has(cfg.p, x) THEN params[x] = parse(cfg.p[x])
              ELSE IF Has(GlobalsBefore(idx), x) THEN params[x] = GlobalsBefore(idx)[x]
              ELSE /\ Has(params, x) <=> Has(without, x)
                   /\ Has(without, x) => params[x] = without[x]

\* the default filling of a branch alone: timer, the output folder of the
\* kinds that derive it, then the defaults of the kind
DefaultFill(kind, p) ==
    KindDefaults(kind,
        IF kind \in SuffixKinds THEN ResolveOutput(TimerDefault(p), OutputDefault(kind))
        ELSE TimerDefault(p))

\* the values the default filling of a kind gives to the keys nobody sets
DefaultTable(kind) ==
    KindDefaults(kind,
        TimerDefault(IF kind = "MERGE_MASKS" THEN ("add" :> EmptyStr) ELSE EmptyDict))

\* value v given to key x by the block or the global parameters is the one the
\* launched stage holds, or x is the folder key and v a token that was
\* substituted, or x is save_at_the_end reset by RADIOMICS
KeptOrSubstituted(x, v) ==
    \/ params[x] = v
    \/ x = InputKey(kindNow) /\ v = DOT /\ params[x] = inputPath
    \/ x = InputKey(kindNow) /\ v = PREVIOUS_BLOCK_OUTPUT_FOLDER /\ params[x] = previous_outFolder
    \/ /\ kindNow = "RADIOMICS" /\ x = "save_at_the_end" /\ params[x] = PyFalse
       /\ GreaterThanOne(params["multiprocessing"])

\* the output folder a branch derives when nobody gives one
DerivedOutput ==
    IF Has(params, "outputFolderSuffix")
    THEN \E base \in {params["inputFolder"], ResolveDot(rawParams, inputPath)["inputFolder"]} :
            params["outputFolder"] = rstrip(base) \o <<"_">> \o str(params["outputFolderSuffix"])
    ELSE params["outputFolder"] = OutputDefault(kindNow)

\* C26: in the parameters of a launched stage every key holds the value of the
\* stage's own block when the block sets it, else the global value when there
\* is one, else the default of the kind; only the substitution of a token in
\* the folder key and the RADIOMICS reset of save_at_the_end replace a given
\* value; and filling the defaults again changes nothing.
C26_PrecedenceAndIdempotence ==
    (pc = "running" /\ ParseError(cfg) = "none") =>
        /\ \A x \in DOMAIN params :
              IF Has(cfg.p, x) THEN KeptOrSubstituted(x, parse(cfg.p[x]))
              ELSE IF Has(global_params, x) THEN KeptOrSubstituted(x, global_params[x])
              ELSE IF x = "outputFolder" /\ kindNow \in SuffixKinds THEN DerivedOutput
              ELSE Has(DefaultTable(kindNow), x) /\ params[x] = DefaultTable(kindNow)[x]
        /\ \A x \in ((DOMAIN cfg.p) \cup (DOMAIN global_params)) \ {"Structure"} : Has(params, x)
        /\ DefaultFill(kindNow, params) = params

\* a REORGANIZE stage was launched with its own inplace where the global
\* parameters give another one, and with the default of mv
C26_Witness ==
    /\ pc = "running" /\ kindNow = "REORGANIZE" /\ ParseError(cfg) = "none"
    /\ Has(cfg.p, "inplace") /\ Has(global_params, "inplace")
    /\ params["inplace"] = parse(cfg.p["inplace"])
    /\ params["inplace"] # global_params["inplace"]
    /\ ~Has(cfg.p, "mv") /\ ~Has(global_params, "mv")
    /\ params["mv"] = <<"F","a","l","s","e">>

\* the keys stage execution may write in global_params
StageWritten == {"Structure", "with-segmentation"}

\* a step of the stages writes global_params in Structure and with-segmentation
\* only, and with-segmentation only to True when a SEGMENTATION stage returns
GlobalsFrame ==
    pc \in {"loop", "running"} =>
        /\ \A x \in ((DOMAIN global_params) \cup (DOMAIN global_params')) \ StageWritten :
              /\ Has(global_params, x) /\ Has(global_params', x)
              /\ global_params'[x] = global_params[x]
        /\ Has(global_params, "with-segmentation") => Has(global_params', "with-segmentation")
        /\ (/\ Has(global_params', "with-segmentation")
            /\ \/ ~Has(global_params, "with-segmentation")
               \/ global_params'["with-segmentation"] # global_params["with-segmentation"])
           => /\ pc = "running" /\ kindNow = "SEGMENTATION"
              /\ global_params'["with-segmentation"] = PyTrue

\* C27: a launched stage holds no key but those of its own block, of the
\* global parameters and of the defaults of its kind; once the stages run,
\* global_params changes in no key other than Structure and with-segmentation,
\* with-segmentation only becomes True and only when a SEGMENTATION stage
\* returns, and every global key of the file keeps its parsed value.
C27_OnlyGlobalsAndPreviousCarried ==
    /\ [](/\ (pc = "running" /\ ParseError(cfg) = "none") =>
                \A x \in DOMAIN params :
                    \/ Has(cfg.p, x) \/ Has(global_params, x)
                    \/ Has(DefaultTable(kindNow), x)
                    \/ x = "outputFolder" /\ kindNow \in SuffixKinds
          /\ pc \in {"loop", "running", "end"} =>
                \A x \in (DOMAIN CollectGlobals(configs, EmptyDict)) \ StageWritten :
                    /\ Has(global_params, x)
                    /\ global_params[x] = CollectGlobals(configs, EmptyDict)[x])
    /\ [][GlobalsFrame]_vars

\* a COPY stage was launched third, after a stage whose block gave an output
\* folder and a SEGMENTATION stage: it holds with-segmentation from the global
\* parameters and no output folder
C27_Witness ==
    /\ pc = "running" /\ idx = 3 /\ kindNow = "COPY"
    /\ Has(configs[1].p, "outputFolder") /\ Cardinality(CallsOfStage(1)) = 1
    /\ configs[2].function = "SEGMENTATION"
    /\ global_params["with-segmentation"] = PyTrue
    /\ params["with-segmentation"] = PyTrue
    /\ ~Has(params, "outputFolder")
    /\ previous_outFolder = configs[1].p["outputFolder"]

\* the run was stopped by the stage at idx
StoppedAtStage ==
    /\ pc = "exited" /\ idx \in 1..Len(configs)
    /\ \A m \in printed : m.stage # 0

\* C28 (as claimed): no run stops while a flag list is built: a run that was
\* stopped by a stage was stopped by the reading of the block's values or by
\* the validation and the defaults of the branch, never by a key the flag list
\* reads and nobody supplied.
C28_FlagsNeverMissAKey ==
    /\ \A m \in printed : ~(m.msg = "Traceback" /\ m.arg = "KeyError")
    /\ StoppedAtStage =>
          \/ ParseError(cfg) # "none"
          \/ Fatal(kindNow, FilledParams(idx), global_params)
          \/ CompareError(kindNow, FilledParams(idx))

-----------------------------------------------------------------------------
(* gen_testing_pipeline_file.py: the generator of testing pipeline files.   *)
(* A line is kept without its final newline; a write of '...\n' appends one *)
(* line to outfile.                                                         *)

\* line.split(): the words between runs of white space
RECURSIVE Words(_)
Words(s) ==
    IF s = << >> THEN << >>
    ELSE IF Head(s) \in Whitespace THEN Words(Tail(s))
    ELSE LET stops == {k \in 1..Len(s) : s[k] \in Whitespace}
             n == IF stops = {} THEN Len(s) + 1
                  ELSE CHOOSE k \in stops : \A j \in stops : k <= j
         IN <<SubSeq(s, 1, n - 1)>> \o Words(SubSeq(s, n, Len(s)))

\* position of the last c in s, 0 when there is none
LastIndex(s, c) ==
    LET hits == {k \in 1..Len(s) : s[k] = c}
    IN IF hits = {} THEN 0 ELSE CHOOSE k \in hits : \A j \in hits : j <= k

\* os.path.split(path): <<head, tail>>; head loses its trailing slashes unless
\* it is made of slashes only
PathSplit(path) ==
    LET i == LastIndex(path, "/")
        head == SubSeq(path, 1, i)
        tail == SubSeq(path, i + 1, Len(path))
    IN <<IF rstrip(head) = << >> THEN head ELSE rstrip(head), tail>>

\* os.path.splitext(filename) for a name without '/': <<root, extension>>; the
\* extension starts at the last dot that has a character other than a dot
\* before it
PathSplitext(filename) ==
    LET dot == LastIndex(filename, ".")
    IN IF dot > 0 /\ \E k \in 1..(dot - 1) : filename[k] # "."
       THEN <<SubSeq(filename, 1, dot - 1), SubSeq(filename, dot, Len(filename))>>
       ELSE <<filename, << >> >>

\* os.path.join(a, b)
PathJoin(a, b) ==
    IF Len(b) > 0 /\ b[1] = "/" THEN b
    ELSE IF a = << >> \/ a[Len(a)] = "/" THEN a \o b
    ELSE a \o <<"/">> \o b

Tab == <<"\t">>
Space == <<" ">>

\* new_log(line, suffix), lines 454-458; line.split()[1] raises IndexError
\* when the line has one word only
new_log(ln, suffix) ==
    IF Len(Words(ln)) < 2 THEN IndexError
    ELSE LET sp == PathSplit(Words(ln)[2])
             re == PathSplitext(sp[2])
         IN Tab \o Words(ln)[1] \o Space \o PathJoin(sp[1], re[1] \o <<"_">> \o suffix \o re[2])

\* the suffix "None" of the modules that get no outputFolderSuffix line
NoSuffix == <<"N","o","n","e">>

InputLine(path) == <<"\t","i","n","p","u","t","F","o","l","d","e","r",":"," ">> \o path
OutputLine(path) == <<"\t","o","u","t","p","u","t","F","o","l","d","e","r",":"," ">> \o path
SuffixLine(suffix) == <<"\t","o","u","t","p","u","t","F","o","l","d","e","r","S","u","f","f","i","x",":"," ">> \o suffix

\* newFolderName(strategy, newInputFolder, suffix, promptIn, promptOut), lines
\* 371-409, with the answers given to its prompts: the two lines (line_out ''
\* when there is none), the new newInputFolder and the prompts it made
newFolderName(strat, folder, suffix, answerIn, answerOut) ==
    CASE strat = "manual" ->
            [line_in |-> InputLine(answerIn),
             line_out |-> IF answerOut # EmptyStr THEN OutputLine(answerOut) ELSE EmptyStr,
             newInputFolder |-> folder,
             asked |-> <<"in", "out">>]
      [] strat = "suffix" ->
            IF folder = EmptyStr
            THEN [line_in |-> InputLine(answerIn),
                  line_out |-> IF suffix # NoSuffix THEN SuffixLine(suffix) ELSE EmptyStr,
                  newInputFolder |-> IF suffix # NoSuffix
                                     THEN rstrip(answerIn) \o <<"_">> \o suffix
                                     ELSE answerIn,
                  asked |-> <<"in">>]
            ELSE [line_in |-> InputLine(folder),
                  line_out |-> IF suffix # NoSuffix THEN SuffixLine(suffix) ELSE EmptyStr,
                  newInputFolder |-> IF suffix # NoSuffix
                                     THEN rstrip(folder) \o <<"_">> \o suffix
                                     ELSE folder,
                  asked |-> << >>]
      [] strat = "auto" ->
            [line_in |-> InputLine(IF folder = EmptyStr THEN DOT
                                   ELSE PREVIOUS_BLOCK_OUTPUT_FOLDER),
             line_out |-> IF suffix # NoSuffix THEN SuffixLine(suffix) ELSE EmptyStr,
             newInputFolder |-> IF folder = EmptyStr THEN DOT
                                ELSE PREVIOUS_BLOCK_OUTPUT_FOLDER,
             asked |-> << >>]


\* the modules in the order of the elif chain of lines 105-349
TestingKinds ==
    <<"GLOBAL_PARAMETERS", "CHECK_FOLDER", "REORGANIZE", "DCM2NII", "RESAMPLING",
      "MERGE_MASKS", "MASK_THRESHOLDING", "I-WINDOWING", "RADIOMICS", "DELETE",
      "SEGMENTATION", "F-NORMALIZE", "F-HARMONIZE">>

\* the text looked for in a line
ModuleText(kind) == IF kind = "RESAMPLING" THEN <<"R","E","S","A","M","P","L","I","N","G">> ELSE Spell[kind]

\* the branch of the elif chain a line takes: the first module found in
\* line.split('#')[0] or equal to config; "" when the last else is reached
Branch(ln, cfgNow) ==
    LET head == split(ln, "#")[1]
        hits == {n \in 1..Len(TestingKinds) :
                    Contains(ModuleText(TestingKinds[n]), head) \/ cfgNow = TestingKinds[n]}
    IN IF hits = {} THEN ""
       ELSE TestingKinds[CHOOSE n \in hits : \A m \in hits : n <= m]

\* any(key in line.split()[0] for key in keys)
KeyHas(ln, keys) == \E k \in keys : Contains(k, Words(ln)[1])

LogKey == <<"l","o","g">>
InputFolderKey == <<"i","n","p","u","t","F","o","l","d","e","r">>
BatchFileKey == <<"b","a","t","c","h","_","f","i","l","e">>

\* the suffix a branch passes to newFolderName
SuffixOf(kind) ==
    CASE kind = "REORGANIZE" -> <<"r","e","a","d","y">>
      [] kind = "DCM2NII" -> <<"n","i","i">>
      [] kind = "RESAMPLING" -> <<"r","e","s","a","m","p","l","e","d">>
      [] OTHER -> NoSuffix

\* the keys whose lines a branch leaves out ("#skip line")
SkippedKeys(kind) ==
    CASE kind = "CHECK_FOLDER" -> {}
      [] kind = "REORGANIZE" -> {<<"o","u","t","p","u","t","F","o","l","d","e","r">>, <<"o","u","t","p","u","t","F","o","l","d","e","r","S","u","f","f","i","x">>}
      [] kind = "SEGMENTATION" -> {<<"s","k","i","p">>}
      [] kind = "F-NORMALIZE" ->
            {<<"o","u","t","p","u","t","F","o","l","d","e","r">>, <<"o","u","t","p","u","t","F","o","l","d","e","r","S","u","f","f","i","x">>, <<"m","o","d","e">>, <<"s","t","a","t","s","_","f","i","l","e","n","a","m","e">>}
      [] kind = "F-HARMONIZE" -> {<<"o","u","t","p","u","t","F","o","l","d","e","r">>, <<"o","u","t","p","u","t","F","o","l","d","e","r","S","u","f","f","i","x">>, <<"m","o","d","e">>}
      [] OTHER -> {<<"o","u","t","p","u","t","F","o","l","d","e","r">>, <<"o","u","t","p","u","t","F","o","l","d","e","r","S","u","f","f","i","x">>, <<"s","k","i","p">>}

\* the folder given with -r and the answer 0 of selectFile
ModelFolder == <<"/","m">>
Quit == <<"0">>

ModelFolderLine == <<"\t","m","o","d","e","l","F","o","l","d","e","r",":"," ">> \o ModelFolder
ModeLine == <<"\t","m","o","d","e",":"," ","E","x","t","e","r","n","a","l">>

\* what one iteration of the loop of line 98 does with raw_line: the lines it
\* writes, the new values of the locals, the prompts it makes and how it ends
\* ("exit": sys.exit() of line 349, "quit": sys.exit(2) of selectFile,
\* "IndexError": raised by new_log)
Iteration(out, cfgNew, folder, result, asked, end) ==
    [out |-> out, config |-> cfgNew, newInputFolder |-> folder, resultFolder |-> result,
     asked |-> asked, end |-> end]

\* lines 302-308 and 323-332: the closing brace of F-NORMALIZE and F-HARMONIZE
CloseFeatureBlock(kind, raw, folder, result, f1, f2) ==
    IF f1 = Quit
    THEN Iteration(<<ModelFolderLine>>, kind, folder, result, <<"select">>, "quit")
    ELSE IF kind = "F-NORMALIZE"
    THEN Iteration(<<ModelFolderLine, <<"\t","s","t","a","t","s","_","f","i","l","e","n","a","m","e",":"," ">> \o f1, ModeLine, raw>>,
                   "", folder, result, <<"select">>, "none")
    ELSE IF f2 = Quit
    THEN Iteration(<<ModelFolderLine, <<"\t","r","a","d","i","o","m","i","c","s","_","f","r","o","m","_","m","o","d","e","l","_","f","i","l","e","n","a","m","e",":"," ">> \o f1>>,
                   kind, folder, result, <<"select", "select">>, "quit")
    ELSE Iteration(<<ModelFolderLine, <<"\t","r","a","d","i","o","m","i","c","s","_","f","r","o","m","_","m","o","d","e","l","_","f","i","l","e","n","a","m","e",":"," ">> \o f1,
                     <<"\t","b","a","t","c","h","_","f","r","o","m","_","m","o","d","e","l","_","f","i","l","e","n","a","m","e",":"," ">> \o f2, ModeLine, raw>>,
                   "", folder, result, <<"select", "select">>, "none")

\* the inputFolder line of a block
InputFolderLine(kind, folder, result, strat, answerIn, answerOut) ==
    LET r == newFolderName(strat, folder, SuffixOf(kind), answerIn, answerOut)
        both == <<r.line_in>> \o (IF r.line_out # EmptyStr THEN <<r.line_out>> ELSE << >>)
    IN CASE kind = "CHECK_FOLDER" ->
                Iteration(both, kind, IF strat = "auto" THEN folder ELSE r.newInputFolder,
                          result, r.asked, "none")
         [] kind = "RADIOMICS" ->
                Iteration(<<InputLine(folder), OutputLine(answerOut)>>, kind, folder,
                          answerOut, <<"result">>, "none")
         [] kind = "SEGMENTATION" ->
                Iteration(<<r.line_in>>, kind, r.newInputFolder, result, r.asked, "none")
         [] kind \in {"F-NORMALIZE", "F-HARMONIZE"} ->
                Iteration(<<InputLine(result)>>, kind, folder, result, << >>, "none")
         [] OTHER ->
                Iteration(both, kind, r.newInputFolder, result, r.asked, "none")

\* the body of the loop of lines 98-349
WriteLine(raw, cfgNow, folder, result, strat, suffix, answerIn, answerOut, f1, f2) ==
    LET ln == strip(raw)
        kind == Branch(ln, cfgNow)
    IN
    IF ln = EmptyStr \/ ln[1] = "#"
    THEN Iteration(<<raw>>, cfgNow, folder, result, << >>, "none")
    ELSE IF kind = ""
    THEN Iteration(<< >>, cfgNow, folder, result, << >>, "exit")
    ELSE IF kind = "GLOBAL_PARAMETERS"
    THEN Iteration(<<raw>>, IF ln[1] = "}" THEN "" ELSE kind, folder, result, << >>, "none")
    ELSE IF kind = "DELETE"
    THEN Iteration(<< >>, kind, folder, result, << >>, "none")
    ELSE IF ln[1] = "}"
    THEN IF kind \in {"F-NORMALIZE", "F-HARMONIZE"}
         THEN CloseFeatureBlock(kind, raw, folder, result, f1, f2)
         ELSE Iteration(<<raw>>, "", folder, result, << >>, "none")
    ELSE IF KeyHas(ln, {LogKey})
    THEN IF new_log(ln, suffix) = IndexError
         THEN Iteration(<< >>, kind, folder, result, << >>, "IndexError")
         ELSE Iteration(<<new_log(ln, suffix)>>, kind, folder, result, << >>, "none")
    ELSE IF KeyHas(ln, {InputFolderKey})
    THEN InputFolderLine(kind, folder, result, strat, answerIn, answerOut)
    ELSE IF kind = "F-HARMONIZE" /\ KeyHas(ln, {BatchFileKey})
    THEN Iteration(<<Tab \o Words(ln)[1] \o Space \o answerIn>>, kind, folder, result,
                   <<"batch">>, "none")
    ELSE IF KeyHas(ln, SkippedKeys(kind))
    THEN Iteration(<< >>, kind, folder, result, << >>, "none")
    ELSE Iteration(<<raw>>, kind, folder, result, << >>, "none")


\* default of --suffix (line 18)
log_suffix == <<"t","e","s","t","i","n","g">>

\* line 96
HeaderLine == <<"#","T","E","S","T","I","N","G"," ","P","I","P","E","L","I","N","E"," ","F","I","L","E"," ","G","E","N","E","R","A","T","E","D"," ","W","I","T","H"," ","g","e","n","_","t","e","s","t","i","n","g","_","p","i","p","e","l","i","n","e","_","f","i","l","e",".","p","y">>

\* what the prompts can be answered, and the files selectFile can return
Answers == {<<"/","t","/">>, EmptyStr}
FileChoices == {<<"s",".","x","l","s","x">>, Quit}

\* a call of input(): the line of infile being read, the branch, and what is
\* asked ("in"/"out": the two prompts of newFolderName, "result": the result
\* folder of RADIOMICS, "batch": the batch file, "select": selectFile)
Asked(n, module, asks) ==
    [k \in 1..Len(asks) |-> [line |-> n, module |-> module, ask |-> asks[k]]]

\* lines 91-97: the files are opened and the first line is written
OpenFiles ==
    /\ gen = "open"
    /\ outfile' = <<HeaderLine>>
    /\ gen' = "lines"
    /\ UNCHANGED <<infile, strategy, predictModule, testing_config, newInputFolder,
                   resultFolder, lineno, prompts>>
    /\ UNCHANGED ovars

\* the prompts the iteration on the current line makes when no selectFile is
\* answered 0
Pending ==
    WriteLine(infile[lineno], testing_config, newInputFolder, resultFolder, strategy,
              log_suffix, EmptyStr, EmptyStr, EmptyStr, EmptyStr).asked

\* the answers to enumerate for the prompts of these kinds: one dummy answer
\* when the iteration makes none of them
AnswersTo(asks, all) ==
    IF \E k \in 1..Len(Pending) : Pending[k] \in asks THEN all ELSE {EmptyStr}

\* lines 98-349: one iteration of the loop over the lines of infile
CopyLine ==
    /\ gen = "lines" /\ lineno <= Len(infile)
    /\ \E answerIn \in AnswersTo({"in", "batch"}, Answers),
          answerOut \in AnswersTo({"out", "result"}, Answers),
          f1 \in AnswersTo({"select"}, FileChoices),
          f2 \in IF Len(Pending) = 2 THEN AnswersTo({"select"}, FileChoices) ELSE {EmptyStr} :
          LET r == WriteLine(infile[lineno], testing_config, newInputFolder, resultFolder,
                             strategy, log_suffix, answerIn, answerOut, f1, f2)
          IN /\ outfile' = outfile \o r.out
             /\ testing_config' = r.config
             /\ newInputFolder' = r.newInputFolder
             /\ resultFolder' = r.resultFolder
             /\ prompts' = prompts \o
                    Asked(lineno, Branch(strip(infile[lineno]), testing_config), r.asked)
             /\ gen' = IF r.end = "none" THEN "lines" ELSE "exited"
             /\ lineno' = IF r.end = "none" THEN lineno + 1 ELSE lineno
    /\ UNCHANGED <<infile, strategy, predictModule>>
    /\ UNCHANGED ovars

\* lines 353-356 and 359-362: the PREDICT module before and after selectFile
PredictHead ==
    <<EmptyStr, <<"P","R","E","D","I","C","T",":">>, <<"{">>, InputLine(resultFolder), ModelFolderLine>>
PredictTail(f) ==
    <<<<"\t","m","o","d","e","l","_","f","i","l","e","n","a","m","e",":"," ">> \o f, <<"\t","p","r","e","d","i","c","t","_","f","i","l","e","n","a","m","e",":"," ","m","o","d","e","l","_","p","r","e","d","i","c","t","i","o","n",".","x","l","s","x">>,
      <<"\t","l","o","g",":"," ","l","o","g","_","m","o","d","e","l","_","p","r","e","d","i","c","t","i","o","n",".","o","u","t">>, <<"}">>, EmptyStr>>

\* lines 352-364: the loop is over; the PREDICT module is added with -p
EndOfFile ==
    /\ gen = "lines" /\ lineno > Len(infile)
    /\ IF predictModule
       THEN \E f \in FileChoices :
               /\ outfile' = outfile \o PredictHead \o (IF f = Quit THEN << >> ELSE PredictTail(f))
               /\ prompts' = prompts \o Asked(lineno, "PREDICT", <<"select">>)
               /\ gen' = IF f = Quit THEN "exited" ELSE "done"
       ELSE /\ gen' = "done"
            /\ UNCHANGED <<outfile, prompts>>
    /\ UNCHANGED <<infile, strategy, predictModule, testing_config, newInputFolder,
                   resultFolder, lineno>>
    /\ UNCHANGED ovars

TestingNext == OpenFiles \/ CopyLine \/ EndOfFile

-----------------------------------------------------------------------------
(* The explored pipeline files of the generator *)

\* a block as it is written in a pipeline file: the module line, the brace,
\* the parameter lines and the closing brace
TestingBlock(kind, lines) ==
    <<Spell[kind] \o <<":">>, <<"{">> >> \o lines \o << <<"}">> >>

CheckFolderBlock ==
    <<<<"#"," ","f","o","l","d","e","r"," ","c","h","e","c","k">>>> \o TestingBlock("CHECK_FOLDER", <<<<"\t","i","n","p","u","t","F","o","l","d","e","r",":"," ","/","a","/">>>>)
ReorganizeBlock ==
    TestingBlock("REORGANIZE",
        <<<<"\t","i","n","p","u","t","F","o","l","d","e","r",":"," ","/","a","/">>, <<"\t","o","u","t","p","u","t","F","o","l","d","e","r","S","u","f","f","i","x",":"," ","s">>, <<"\t","n","e","w","_","l","o","g","_","f","i","l","e",":"," ","T","r","u","e">>>>)
Dcm2niiBlock ==
    TestingBlock("DCM2NII",
        <<<<"\t","i","n","p","u","t","F","o","l","d","e","r",":"," ","/","a","_","s">>, <<"\t","o","u","t","p","u","t","F","o","l","d","e","r",":"," ","/","b">>, <<"\t","l","o","g",":"," ","l","/","d",".","o","u","t">>>>)
DeleteBlock == TestingBlock("DELETE", <<<<"\t","f","o","l","d","e","r",":"," ","/","a","_","s">>>>) \o <<EmptyStr>>
SegmentationBlock == TestingBlock("SEGMENTATION", <<<<"\t","i","n","p","u","t","F","o","l","d","e","r",":"," ","/","b">>, <<"\t","s","k","i","p",":"," ","x">>>>)
RadiomicsBlock ==
    TestingBlock("RADIOMICS", <<<<"\t","i","n","p","u","t","F","o","l","d","e","r",":"," ","/","b">>, <<"\t","o","u","t","p","u","t","F","o","l","d","e","r",":"," ","/","o">>>>)

TestingBlocks ==
    {CheckFolderBlock, ReorganizeBlock, Dcm2niiBlock, DeleteBlock, SegmentationBlock,
     RadiomicsBlock,
     TestingBlock("GLOBAL_PARAMETERS", <<<<"\t","v","e","r","b","o","s","e",":"," ","T","r","u","e">>, <<"\t","l","o","g",":"," ","/","l","/","g",".","o","u","t">>>>),
     TestingBlock("SPATIAL_RESAMPLING",
        <<<<"\t","i","n","p","u","t","F","o","l","d","e","r",":"," ","/","b">>, <<"\t","o","u","t","p","u","t","F","o","l","d","e","r","S","u","f","f","i","x",":"," ","r">>, <<"\t","l","o","g",":"," ",".","o","u","t">>>>),
     TestingBlock("MERGE_MASKS", <<<<"\t","i","n","p","u","t","F","o","l","d","e","r",":"," ","/","b">>, <<"\t","r","e","g",":"," ","r">>, <<"\t","m","a","s","k","_","n","a","m","e",":"," ","m">>>>),
     TestingBlock("I-WINDOWING", <<<<"\t","i","n","p","u","t","F","o","l","d","e","r",":"," ","/","b">>, <<"\t","l","o","g",":","w",".","o","u","t">>>>),
     TestingBlock("F-NORMALIZE", <<<<"\t","i","n","p","u","t","F","o","l","d","e","r",":"," ","/","o">>, <<"\t","m","o","d","e",":"," ","I","n","t","e","r","n","a","l">>>>),
     TestingBlock("F-HARMONIZE", <<<<"\t","i","n","p","u","t","F","o","l","d","e","r",":"," ","/","o">>, <<"\t","b","a","t","c","h","_","f","i","l","e",":"," ","b",".","x","l","s","x">>>>),
     TestingBlock("COPY", <<<<"\t","i","n","p","u","t","F","o","l","d","e","r",":"," ","/","b">>, <<"\t","t","a","r","g","e","t","F","o","l","d","e","r",":"," ","/","c">>>>)}

TestingContext == {CheckFolderBlock, ReorganizeBlock, DeleteBlock}
TestingFollowers == {<< >>, Dcm2niiBlock, SegmentationBlock, RadiomicsBlock}

RECURSIVE Flatten(_)
Flatten(blocks) == IF blocks = << >> THEN << >> ELSE Head(blocks) \o Flatten(Tail(blocks))

PipelineFiles ==
    {Flatten(c) \o b \o f :
        c \in SeqsUpTo(TestingContext, MaxContext), b \in TestingBlocks, f \in TestingFollowers}

TestingInit ==
    /\ infile \in PipelineFiles
    /\ outfile = << >>
    /\ strategy \in {"manual", "suffix", "auto"}
    /\ predictModule \in BOOLEAN
    /\ testing_config = ""
    /\ newInputFolder = EmptyStr
    /\ resultFolder = EmptyStr
    /\ lineno = 1
    /\ prompts = << >>
    /\ gen = "open"
    /\ file = << >> /\ configs = << >> /\ inputPath = EmptyStr
    /\ global_params = EmptyDict /\ params = EmptyDict /\ previous_outFolder = EmptyStr
    /\ pc = "idle" /\ idx = 1 /\ calls = << >> /\ running = {} /\ lastResult = "none"
    /\ exitCode = -1 /\ printed = {}

TestingSpec == TestingInit /\ [][TestingNext]_vars

-----------------------------------------------------------------------------
(* Properties of the generator *)

\* the blocks of a pipeline file, as read_config_file reads them
BlocksOf(ls) == read_config_file(ls, NoConfig, FALSE, << >>).configs

\* the modules of the blocks of a pipeline file, in file order
KindsOf(ls) == [k \in 1..Len(BlocksOf(ls)) |-> BlocksOf(ls)[k].function]

\* line n of ls is the module line of a DELETE block or a line of that block
InDeleteBlock(ls, n) ==
    \E h \in 1..n :
        /\ KindLineAt(ls, h) /\ MatchKind(ls[h]) = "DELETE"
        /\ \A j \in h..(n - 1) : ls[j][1] # "}"

\* the module and parameter lines of the DELETE blocks of a file
DeleteLines(ls) ==
    {ls[n] : n \in {m \in 1..Len(ls) : InDeleteBlock(ls, m) /\ ls[m][1] \notin {"{", "}"}}}

\* the block the generator adds with -p
AddedKinds == IF predictModule THEN <<"PREDICT">> ELSE << >>

\* C23 (as claimed): the file the generator has written holds no line of a
\* DELETE block of the input and holds, in the input's order, one block for
\* every other block of the input, wherever the DELETE blocks are, a
\* SEGMENTATION, F-NORMALIZE or F-HARMONIZE block after a DELETE block included.
C23_DropsExactlyDeleteBlocks ==
    gen = "done" =>
        /\ KindsOf(outfile) =
              SelectSeq(KindsOf(infile), LAMBDA k : k # "DELETE") \o AddedKinds
        /\ \A n \in 1..Len(outfile) : strip(outfile[n]) \notin DeleteLines(Meaningful(infile))

\* a stripped line is a parameter line: no comment, no brace, no module line,
\* and a colon after its key
IsParameterLine(ln) ==
    /\ ln # EmptyStr /\ ln[1] \notin {"#", "{", "}"}
    /\ MatchKind(ln) = ""
    /\ FirstColon(ln) > 1

\* key and value of a parameter line, blanks removed
KeyIn(ln) == KeyOf(RemoveBlanks(ln))
ValueIn(ln) == ValueOf(RemoveBlanks(ln))

\* path with the suffix put before the extension of its file name
Suffixed(path, suffix) ==
    LET sp == PathSplit(path)
        re == PathSplitext(sp[2])
    IN PathJoin(sp[1], re[1] \o <<"_">> \o suffix \o re[2])

\* the lines a step has added to outfile
Written == SubSeq(outfile', Len(outfile) + 1, Len(outfile'))

\* an iteration of the loop over infile, on a line outside the DELETE branch:
\* a comment or blank line is copied; a line whose key is log is written with
\* the same key and the suffixed file name; the rewrite of a log line is
\* applied to no other parameter line
LogRewriteStep ==
    (gen = "lines" /\ lineno <= Len(infile) /\ (gen' # gen \/ lineno' # lineno)) =>
        LET raw == infile[lineno]
            ln == strip(raw)
        IN /\ (ln = EmptyStr \/ ln[1] = "#") => Written = <<raw>>
           /\ (IsParameterLine(ln) /\ Branch(ln, testing_config) # "DELETE") =>
                 IF KeyIn(ln) = LogKey
                 THEN /\ Len(Written) = 1
                      /\ KeyIn(strip(Written[1])) = LogKey
                      /\ ValueIn(strip(Written[1])) = Suffixed(ValueIn(ln), log_suffix)
                 ELSE Written # <<new_log(ln, log_suffix)>>

\* C24 (as claimed): the generator rewrites exactly the lines whose key is log,
\* in every block it copies (GLOBAL_PARAMETERS included): the file name gets the
\* suffix before its extension, directory and key are kept; a line with another
\* key is not rewritten, and comment and blank lines are copied unchanged.
C24_LogRewriteExactlyLogLines == [][LogRewriteStep]_vars

\* the lines of infile that give a block its inputFolder
InputFolderLines ==
    {n \in 1..Len(infile) :
        IsParameterLine(strip(infile[n])) /\ KeyIn(strip(infile[n])) = InputFolderKey}

\* the prompts for an input folder made so far
InputPrompts == {k \in 1..Len(prompts) : prompts[k].ask = "in"}

\* the modules that work on a folder of images
ImageKinds ==
    {"CHECK_FOLDER", "REORGANIZE", "DCM2NII", "SPATIAL_RESAMPLING", "INTENSITY_RESAMPLING",
     "MERGE_MASKS", "MASK_THRESHOLDING", "I-WINDOWING", "SEGMENTATION", "RADIOMICS"}

\* block k of a file is a stage on images that names its inputFolder
ImageStage(bs, k) == bs[k].function \in ImageKinds /\ Has(bs[k].p, "inputFolder")

\* the output folder the orchestrator gives the stage of block b when it runs
\* it: derived from the suffix when the block has one, else its own inputFolder
OutputAtRunTime(b) ==
    IF Has(b.p, "outputFolderSuffix")
    THEN ResolveOutput(ParseAll(b.p), EmptyStr)["outputFolder"]
    ELSE parse(b.p["inputFolder"])

\* C25 (as claimed): with the strategy suffix the generator asks for an input
\* folder once, at the first block that has an inputFolder line; and in the
\* file it has written the inputFolder of every later stage on images is the
\* output folder the orchestrator derives for the stage before it (its
\* inputFolder without trailing '/', '_', its outputFolderSuffix), or that
\* stage's inputFolder when it has no suffix.
C25_SuffixStrategyChains ==
    (gen = "done" /\ strategy = "suffix") =>
        /\ IF InputFolderLines = {} THEN InputPrompts = {}
           ELSE /\ Cardinality(InputPrompts) = 1
                /\ \A k \in InputPrompts : \A n \in InputFolderLines : prompts[k].line <= n
        /\ LET bs == BlocksOf(outfile) IN
           \A j \in 1..Len(bs), k \in 1..Len(bs) :
              (/\ j < k /\ ImageStage(bs, j) /\ ImageStage(bs, k)
               /\ \A m \in (j + 1)..(k - 1) : ~ImageStage(bs, m))
              => parse(bs[k].p["inputFolder"]) = OutputAtRunTime(bs[j])

====
